---- MODULE Spec2Model ----
(***************************************************************************)
(* Client-side preference managers of the portfolio site:                  *)
(*   static/js/theme.js      colour palette + light/dark/auto mode         *)
(*   static/js/fonts.js      font palette                                  *)
(*   static/js/font-size.js  font size scale                               *)
(* the quick search and the cookie banner of the main script               *)
(* (unnamed/part_000), and the image picker of the admin forms             *)
(* (static/js/image-picker.js).                                            *)
(* Every handler runs to completion on the page's single thread, so one    *)
(* action is one handler (or one public API call) from entry to return or  *)
(* to the exception that leaves it.                                        *)
(*                                                                         *)
(* Values.  null / undefined / "no such item" is NULL.  A hex colour       *)
(* '#6366f1' is the tuple of its six hex digits <<6,3,6,6,15,1>>.  A style *)
(* element's textContent is the sequence of style sheets written into it   *)
(* (a wholesale assignment leaves exactly one).                            *)
(*                                                                         *)
(* Scope.  A page loads one of the scripts, or the three managers         *)
(* together; the managers share no variable and use disjoint storage       *)
(* items, but both applyTheme and applyFontPalette rewrite the class       *)
(* attribute of the document root.  The attribute is the sequence of its   *)
(* lexemes: runs of word characters, hyphens and spaces.  The transient    *)
(* feedback element of the show*Feedback functions is left out of the      *)
(* state; only the exception of showModeChangeFeedback on a page without   *)
(* #theme-icon is kept.                                                    *)
(* Spec is the whole program.  The pages do not interact, so each claim is *)
(* checked under the specification of the pages it is about: SpecManagers  *)
(* (a page with one manager), SpecSite (the page with the three managers), *)
(* SpecLoads (page loads of a manager page), SpecSearch, SpecPicker,       *)
(* SpecBanner (loads of a page with the cookie banner) and SpecBannerFair  *)
(* (the same, with time passing and due timers running).                   *)
(* Of the main script only the quick search and the cookie banner are part *)
(* of the state, and of the image picker everything but the class toggle   *)
(* of .toggle-base64.                                                      *)
(***************************************************************************)
EXTENDS Integers, Sequences, FiniteSets, TLC

NULL == "<null>"

(***************************************************************************)
(* theme.js : tables                                                       *)
(***************************************************************************)
THEMES ==
  "electric-neon" :> [name |-> "Electric Neon",
      light |-> [primary |-> <<6, 3, 6, 6, 15, 1>>, secondary |-> <<8, 11, 5, 12, 15, 6>>, accent |-> <<0, 6, 11, 6, 13, 4>>, background |-> <<15, 8, 15, 10, 15, 12>>, text |-> <<1, 14, 2, 9, 3, 11>>],
      dark |-> [primary |-> <<8, 1, 8, 12, 15, 8>>, secondary |-> <<10, 7, 8, 11, 15, 10>>, accent |-> <<6, 7, 14, 8, 15, 9>>, background |-> <<0, 15, 1, 7, 2, 10>>, text |-> <<15, 1, 15, 5, 15, 9>>]] @@
  "sunset-gradient" :> [name |-> "Sunset Gradient",
      light |-> [primary |-> <<15, 5, 9, 14, 0, 11>>, secondary |-> <<14, 15, 4, 4, 4, 4>>, accent |-> <<14, 12, 4, 8, 9, 9>>, background |-> <<15, 14, 15, 11, 15, 3>>, text |-> <<2, 9, 2, 5, 2, 4>>],
      dark |-> [primary |-> <<15, 11, 11, 15, 2, 4>>, secondary |-> <<15, 8, 7, 1, 7, 1>>, accent |-> <<15, 4, 7, 2, 11, 6>>, background |-> <<1, 12, 1, 9, 1, 7>>, text |-> <<15, 10, 15, 10, 15, 9>>]] @@
  "ocean-deep" :> [name |-> "Ocean Deep",
      light |-> [primary |-> <<0, 14, 10, 5, 14, 9>>, secondary |-> <<0, 6, 11, 6, 13, 4>>, accent |-> <<1, 0, 11, 9, 8, 1>>, background |-> <<15, 0, 15, 9, 15, 15>>, text |-> <<0, 12, 4, 10, 6, 14>>],
      dark |-> [primary |-> <<3, 8, 11, 13, 15, 8>>, secondary |-> <<2, 2, 13, 3, 14, 14>>, accent |-> <<3, 4, 13, 3, 9, 9>>, background |-> <<0, 8, 2, 15, 4, 9>>, text |-> <<14, 0, 15, 2, 15, 14>>]] @@
  "forest-modern" :> [name |-> "Forest Modern",
      light |-> [primary |-> <<0, 5, 9, 6, 6, 9>>, secondary |-> <<7, 12, 3, 10, 14, 13>>, accent |-> <<15, 5, 9, 14, 0, 11>>, background |-> <<15, 0, 15, 13, 15, 4>>, text |-> <<0, 6, 4, 14, 3, 11>>],
      dark |-> [primary |-> <<1, 0, 11, 9, 8, 1>>, secondary |-> <<10, 8, 5, 5, 15, 7>>, accent |-> <<15, 11, 11, 15, 2, 4>>, background |-> <<0, 2, 2, 12, 2, 2>>, text |-> <<14, 12, 15, 13, 15, 5>>]]

\* ['light', 'dark', 'auto'] of loadThemePreferences, toggleMode, setMode and
\* applyExternalTheme
MODES == <<"light", "dark", "auto">>

ModeSet == {MODES[i] : i \in 1..Len(MODES)}

\* Property names every object literal inherits from Object.prototype; the
\* tables are object literals, so TABLE[key] is truthy for these names too.
ObjectPrototypeKeys == {"constructor"}

\* What TABLE['constructor'] evaluates to: the Object function.
ObjectConstructor == [name |-> "Object"]

\* Truthiness of TABLE[key] as the guards `if (TABLE[key])` / `if (!TABLE[key])`
\* test it.
HasProperty(table, key) == key \in DOMAIN table \/ key \in ObjectPrototypeKeys

\* The value of TABLE[key], for a key with HasProperty.
Lookup(table, key) == IF key \in DOMAIN table THEN table[key] ELSE ObjectConstructor

(***************************************************************************)
(* fonts.js : table                                                        *)
(***************************************************************************)
FONT_PALETTES ==
  "modern-professional" :> [name |-> "Modern Professional",
      heading |-> "'Inter', -apple-system, BlinkMacSystemFont, 'Segoe UI', system-ui, sans-serif",
      body |-> "'Inter', -apple-system, BlinkMacSystemFont, 'Segoe UI', system-ui, sans-serif",
      accent |-> "'Inter', -apple-system, BlinkMacSystemFont, 'Segoe UI', system-ui, sans-serif",
      className |-> "font-palette-modern-professional"] @@
  "creative-editorial" :> [name |-> "Creative Editorial",
      heading |-> "'Playfair Display', 'Georgia', 'Times New Roman', serif",
      body |-> "'Inter', -apple-system, BlinkMacSystemFont, 'Segoe UI', system-ui, sans-serif",
      accent |-> "'Playfair Display', 'Georgia', 'Times New Roman', serif",
      className |-> "font-palette-creative-editorial"] @@
  "tech-minimalist" :> [name |-> "Tech Minimalist",
      heading |-> "'JetBrains Mono', 'SF Mono', 'Monaco', 'Inconsolata', 'Roboto Mono', monospace",
      body |-> "'Inter', -apple-system, BlinkMacSystemFont, 'Segoe UI', system-ui, sans-serif",
      accent |-> "'JetBrains Mono', 'SF Mono', 'Monaco', 'Inconsolata', 'Roboto Mono', monospace",
      className |-> "font-palette-tech-minimalist"] @@
  "warm-humanist" :> [name |-> "Warm Humanist",
      heading |-> "'Source Sans Pro', 'Helvetica Neue', 'Arial', sans-serif",
      body |-> "'Source Sans Pro', 'Helvetica Neue', 'Arial', sans-serif",
      accent |-> "'Source Sans Pro', 'Helvetica Neue', 'Arial', sans-serif",
      className |-> "font-palette-warm-humanist"]

\* Object.keys(FONT_PALETTES): insertion order
FontKeys == <<"modern-professional", "creative-editorial", "tech-minimalist", "warm-humanist">>

(***************************************************************************)
(* font-size.js : table.  Numbers are fixed point: a scale of the table    *)
(* and a heading scale are in hundredths (1.1 is 110), a small scale is in *)
(* thousandths (0.875 is 875), a base size is in whole pixels.             *)
(***************************************************************************)
FONT_SIZE_SETTINGS ==
  "extra-small" :> [name |-> "Extra Small", scale |-> 80, baseSize |-> "14px"] @@
  "small" :> [name |-> "Small", scale |-> 90, baseSize |-> "15px"] @@
  "normal" :> [name |-> "Normal", scale |-> 100, baseSize |-> "16px"] @@
  "large" :> [name |-> "Large", scale |-> 110, baseSize |-> "18px"] @@
  "extra-large" :> [name |-> "Extra Large", scale |-> 125, baseSize |-> "20px"]

\* Object.keys(FONT_SIZE_SETTINGS): insertion order
SizeKeys == <<"extra-small", "small", "normal", "large", "extra-large">>

\* the number NaN
NaN == 0 - 1

\* a * b of two numbers
Mul(a, b) == IF a = NaN \/ b = NaN THEN NaN ELSE a * b

\* parseFloat of a base size: the leading number, NaN when the string starts
\* with none
parseFloat(str) ==
  CASE str = "14px" -> 14
    [] str = "16px" -> 16
    [] str = "18px" -> 18
    [] str = "20px" -> 20
    [] OTHER -> NaN

(***************************************************************************)
(* State                                                                   *)
(***************************************************************************)
VARIABLES
  scripts,              \* the manager scripts this page loads
  localStorage,         \* item name -> stored string or NULL
  prefersDark,          \* matchMedia('(prefers-color-scheme: dark)').matches
  currentTheme,         \* theme.js
  currentMode,
  themeVariablesStyle,  \* TRUE when #theme-variables was found by cacheElements
  themeIcon,            \* TRUE when #theme-icon was found by cacheElements
  themeCss,             \* textContent of #theme-variables
  themeIconClass,       \* class tokens of #theme-icon
  dataBsTheme,          \* data-bs-theme attribute of the document root
  rootClass,            \* class attribute of the document root, as its lexemes
  themePicker,          \* [exists, theme, mode]: the picker and its active options
  themeWatching,        \* the matchMedia change listener is registered
  themeRequestListener, \* the requestThemeChange listener is registered
  themeReady,            \* "loading", "ready", or "failed" when init threw
  currentFontPalette,   \* fonts.js
  fontCss,              \* textContent of #font-variables
  fontPicker,           \* [exists, font]
  fontReady,             \* "loading" or "ready"
  currentFontSize,      \* font-size.js
  currentBaseSize,
  currentHeadingScale,
  currentSmallScale,
  fontSizeCss,          \* textContent of #font-size-variables
  fontSizePicker,       \* [exists, size]
  fontSizeReady,         \* "loading" or "ready"
  elements,             \* main script: which elements cacheElements found
  mainReady,            \* "loading" or "ready"
  searchInputValue,     \* value of #search-input, a sequence of characters
  searchTimeout,        \* the timer handle the input handler keeps (0: undefined)
  timers,               \* pending setTimeout timers: [id, query, remaining]
  idle,                 \* time since the last input event, up to DebounceDelay
  fetches,              \* search requests in flight, in the order issued
  lastIssued,           \* URL of the request issued last
  searchResultsDisplay, \* style.display of #quick-search-results
  searchContainer,      \* children of #search-results-container
  loadingDisplay,       \* style.display of #loading-spinner
  isLoading,
  cookieBanner,         \* [display, timer, accept, decline]: style.display of
                        \* #cookie-banner, its pending timer as <<ticks left>>
                        \* (<<>>: none pending), the buttons that have a listener
  pickerReady,          \* image-picker.js: "loading" or "ready" (setupImagePicker ran)
  textareaValue,        \* value of the picker's textarea, a sequence of tokens
  previewSrc,           \* src of .image-preview
  previewDisplay,       \* style.display of .image-preview-container
  fileInputValue,       \* name of the file the file input holds, or NULL
  reads,                \* files a FileReader is reading, in the order started
  previewTimers,        \* pending setTimeout(updatePreviewDisplay, 100) timers
  emitted,              \* events dispatched by the most recent handler
  threw,                \* the most recent handler ended with an exception
  lastCall              \* the most recent handler and its inputs

themeVars == <<currentTheme, currentMode, themeVariablesStyle, themeIcon, themeCss,
               themeIconClass, dataBsTheme, themePicker, themeWatching,
               themeRequestListener, themeReady>>

fontVars == <<currentFontPalette, fontCss, fontPicker, fontReady>>

fontSizeVars == <<currentFontSize, currentBaseSize, currentHeadingScale,
                  currentSmallScale, fontSizeCss, fontSizePicker, fontSizeReady>>

searchVars == <<elements, mainReady, searchInputValue, searchTimeout, timers, idle,
                fetches, lastIssued, searchResultsDisplay, searchContainer,
                loadingDisplay, isLoading, cookieBanner>>

pickerVars == <<pickerReady, textareaValue, previewSrc, previewDisplay,
                fileInputValue, reads, previewTimers>>

vars == <<scripts, localStorage, prefersDark, rootClass, themeVars, fontVars, fontSizeVars,
          searchVars, pickerVars, emitted, threw, lastCall>>

StorageItems == {"portfolio-theme", "portfolio-mode", "portfolio-font-palette",
                 "portfolio-font-size", "cookiesAccepted"}

(***************************************************************************)
(* Functions.  Each takes the state s it runs in, a record of the          *)
(* variables, and returns the state it leaves.                             *)
(* s.threw is the pending exception: once set, the rest of the call chain  *)
(* is skipped.                                                             *)
(***************************************************************************)
State ==
  [scripts |-> scripts, localStorage |-> localStorage, prefersDark |-> prefersDark,
   currentTheme |-> currentTheme, currentMode |-> currentMode,
   themeVariablesStyle |-> themeVariablesStyle, themeIcon |-> themeIcon,
   themeCss |-> themeCss, themeIconClass |-> themeIconClass,
   dataBsTheme |-> dataBsTheme, rootClass |-> rootClass,
   themePicker |-> themePicker,
   themeWatching |-> themeWatching, themeRequestListener |-> themeRequestListener,
   themeReady |-> themeReady,
   currentFontPalette |-> currentFontPalette, fontCss |-> fontCss,
   fontPicker |-> fontPicker, fontReady |-> fontReady,
   currentFontSize |-> currentFontSize, currentBaseSize |-> currentBaseSize,
   currentHeadingScale |-> currentHeadingScale,
   currentSmallScale |-> currentSmallScale, fontSizeCss |-> fontSizeCss,
   fontSizePicker |-> fontSizePicker, fontSizeReady |-> fontSizeReady,
   elements |-> elements, mainReady |-> mainReady,
   searchInputValue |-> searchInputValue, searchTimeout |-> searchTimeout,
   timers |-> timers, idle |-> idle, fetches |-> fetches, lastIssued |-> lastIssued,
   searchResultsDisplay |-> searchResultsDisplay,
   searchContainer |-> searchContainer, loadingDisplay |-> loadingDisplay,
   isLoading |-> isLoading, cookieBanner |-> cookieBanner,
   pickerReady |-> pickerReady, textareaValue |-> textareaValue,
   previewSrc |-> previewSrc, previewDisplay |-> previewDisplay,
   fileInputValue |-> fileInputValue, reads |-> reads,
   previewTimers |-> previewTimers,
   emitted |-> <<>>, threw |-> FALSE]

getResolvedMode(s) ==
  IF s.currentMode = "auto"
  THEN (IF s.prefersDark THEN "dark" ELSE "light")
  ELSE s.currentMode

hexToRgb(hex) == <<16 * hex[1] + hex[2], 16 * hex[3] + hex[4], 16 * hex[5] + hex[6]>>

\* theme[mode] is an object with the five colours
HasColors(key, mode) == key \in DOMAIN THEMES /\ mode \in {"light", "dark"}

\* the style sheet text of updateCSSVariables, as the values it interpolates
ThemeSheet(colors, mode) ==
  [root |-> [portfolioPrimary |-> colors.primary,
             portfolioSecondary |-> colors.secondary,
             portfolioAccent |-> colors.accent,
             portfolioBg |-> colors.background,
             portfolioText |-> colors.text,
             bsPrimary |-> colors.primary,
             bsPrimaryRgb |-> hexToRgb(colors.primary),
             bsSecondary |-> colors.secondary,
             bsSecondaryRgb |-> hexToRgb(colors.secondary),
             gradientPrimary |-> <<colors.primary, colors.secondary>>,
             gradientAccent |-> <<colors.accent, colors.primary>>,
             gradientHero |-> <<colors.primary, colors.secondary, colors.accent>>],
   dataBsTheme |-> mode,
   scoped |-> [portfolioPrimary |-> colors.primary,
               portfolioSecondary |-> colors.secondary,
               portfolioAccent |-> colors.accent,
               portfolioBg |-> colors.background,
               portfolioText |-> colors.text]]

\* element.textContent = css
AppendTextContent(old, css) == Append(old, css)

SetTextContent(old, css) == <<css>>

updateCSSVariables(s, mode) ==
  IF ~s.themeVariablesStyle \/ ~HasProperty(THEMES, s.currentTheme) THEN s
  ELSE IF ~HasColors(s.currentTheme, mode)
       THEN [s EXCEPT !.threw = TRUE]      \* colors is undefined: TypeError
       ELSE [s EXCEPT !.themeCss =
               SetTextContent(@, ThemeSheet(THEMES[s.currentTheme][mode], mode))]

IconClasses == {"bi-sun-fill", "bi-moon-fill", "bi-circle-half"}

updateThemeIcon(s, mode) ==
  IF ~s.themeIcon THEN s
  ELSE LET iconClass == IF s.currentMode = "auto" THEN "bi-circle-half"
                        ELSE IF mode = "light" THEN "bi-sun-fill"
                        ELSE IF mode = "dark" THEN "bi-moon-fill"
                        ELSE "undefined"
       IN [s EXCEPT !.themeIconClass = (@ \ IconClasses) \cup {iconClass}]

\* nothing is written to localStorage
keepThemePreferences(s) == s

saveThemePreferences(s) ==
  [s EXCEPT !.localStorage = [@ EXCEPT !["portfolio-theme"] = s.currentTheme,
                                       !["portfolio-mode"] = s.currentMode]]

\* The event, with what a listener reads while it is dispatched.
dispatchThemeChangeEvent(s) ==
  [s EXCEPT !.emitted = Append(@,
     [type |-> "themechange",
      detail |-> [theme |-> s.currentTheme, mode |-> s.currentMode,
                  resolvedMode |-> getResolvedMode(s),
                  colors |-> Lookup(THEMES, s.currentTheme)],
      seen |-> [stored |-> <<s.localStorage["portfolio-theme"],
                             s.localStorage["portfolio-mode"]>>,
                current |-> <<s.currentTheme, s.currentMode>>,
                css |-> s.themeCss]])]

\* a string of class names as its lexemes: the runs of word characters, the
\* hyphens and the spaces, in order
Lexemes(str) ==
  CASE str = "electric-neon" -> <<"electric", "-", "neon">>
    [] str = "sunset-gradient" -> <<"sunset", "-", "gradient">>
    [] str = "forest-modern" -> <<"forest", "-", "modern">>
    [] str = "ocean-deep" -> <<"ocean", "-", "deep">>
    [] str = "font-palette-modern-professional" ->
         <<"font", "-", "palette", "-", "modern", "-", "professional">>
    [] str = "font-palette-creative-editorial" ->
         <<"font", "-", "palette", "-", "creative", "-", "editorial">>
    [] str = "font-palette-tech-minimalist" ->
         <<"font", "-", "palette", "-", "tech", "-", "minimalist">>
    [] str = "font-palette-warm-humanist" ->
         <<"font", "-", "palette", "-", "warm", "-", "humanist">>
    [] OTHER -> <<str>>

\* \w+ matches a run of word characters
IsWordRun(lexeme) == lexeme \notin {" ", "-"}

\* className.replace(/theme-\w+/g, ''): \w+ stops at the next hyphen
RECURSIVE ReplaceThemeClasses(_)
ReplaceThemeClasses(cls) ==
  IF cls = <<>> THEN <<>>
  ELSE IF Len(cls) >= 3 /\ cls[1] = "theme" /\ cls[2] = "-" /\ IsWordRun(cls[3])
       THEN ReplaceThemeClasses(SubSeq(cls, 4, Len(cls)))
       ELSE <<cls[1]>> \o ReplaceThemeClasses(Tail(cls))

\* className = className.replace(/theme-\w+/g, '') + ` theme-${currentTheme}`
setThemeClass(s) ==
  [s EXCEPT !.rootClass = ReplaceThemeClasses(@) \o <<" ", "theme", "-">>
                            \o Lexemes(s.currentTheme)]

applyTheme(s) ==
  IF ~HasProperty(THEMES, s.currentTheme) THEN s
  ELSE LET resolvedMode == getResolvedMode(s)
           s1 == setThemeClass([s EXCEPT !.dataBsTheme = resolvedMode])
           s2 == updateCSSVariables(s1, resolvedMode)
       IN IF s2.threw THEN s2
          ELSE dispatchThemeChangeEvent(
                 saveThemePreferences(updateThemeIcon(s2, resolvedMode)))

\* modes[(modes.indexOf(currentMode) + 1) % modes.length]; indexOf is -1 for
\* a value outside modes
IndexOf(seq, x) ==
  IF \E i \in 1..Len(seq) : seq[i] = x
  THEN (CHOOSE i \in 1..Len(seq) : seq[i] = x) - 1
  ELSE -1

SkipMode(mode) == MODES[((IndexOf(MODES, mode) + 2) % Len(MODES)) + 1]

NextMode(mode) == MODES[((IndexOf(MODES, mode) + 1) % Len(MODES)) + 1]

\* showModeChangeFeedback reads themeIcon.className
showModeChangeFeedback(s) ==
  IF s.themeIcon THEN s ELSE [s EXCEPT !.threw = TRUE]

toggleMode(s) ==
  LET s1 == applyTheme([s EXCEPT !.currentMode = NextMode(@)])
  IN IF s1.threw THEN s1 ELSE showModeChangeFeedback(s1)

\* the option / button that carries the 'active' class
ActiveOption(options, current) == IF current \in options THEN current ELSE NULL

updateThemePickerSelection(s) ==
  IF ~s.themePicker.exists THEN s
  ELSE [s EXCEPT !.themePicker =
          [exists |-> TRUE,
           theme |-> ActiveOption(DOMAIN THEMES, s.currentTheme),
           mode |-> ActiveOption(ModeSet, s.currentMode)]]

changeTheme(s, themeKey) ==
  IF ~HasProperty(THEMES, themeKey) THEN s
  ELSE LET s1 == applyTheme([s EXCEPT !.currentTheme = themeKey])
       IN IF s1.threw THEN s1 ELSE updateThemePickerSelection(s1)

setMode(s, mode) ==
  IF mode \in ModeSet
  THEN LET s1 == applyTheme([s EXCEPT !.currentMode = mode])
       IN IF s1.threw THEN s1 ELSE updateThemePickerSelection(s1)
  ELSE s

applyExternalTheme(s, themeKey, mode) ==
  LET s1 == IF HasProperty(THEMES, themeKey)
            THEN [s EXCEPT !.currentTheme = themeKey] ELSE s
      s2 == IF mode /= NULL /\ mode \in ModeSet
            THEN [s1 EXCEPT !.currentMode = mode] ELSE s1
      s3 == applyTheme(s2)
  IN IF s3.threw THEN s3 ELSE updateThemePickerSelection(s3)

loadThemePreferences(s, config) ==
  LET savedTheme == s.localStorage["portfolio-theme"]
      savedMode == s.localStorage["portfolio-mode"]
      s1 == IF savedTheme /= NULL /\ HasProperty(THEMES, savedTheme)
            THEN [s EXCEPT !.currentTheme = savedTheme]
            ELSE IF config.ACTIVE_PALETTE /= NULL
                 THEN [s EXCEPT !.currentTheme = config.ACTIVE_PALETTE]
                 ELSE s
  IN IF savedMode /= NULL /\ savedMode \in ModeSet
     THEN [s1 EXCEPT !.currentMode = savedMode]
     ELSE IF config.DEFAULT_THEME /= NULL
          THEN [s1 EXCEPT !.currentMode = config.DEFAULT_THEME]
          ELSE s1

createThemePicker(s) ==
  [s EXCEPT !.themePicker =
     [exists |-> TRUE,
      theme |-> ActiveOption(DOMAIN THEMES, s.currentTheme),
      mode |-> ActiveOption(ModeSet, s.currentMode)]]

watchSystemTheme(s) == [s EXCEPT !.themeWatching = TRUE]

\* init, with cacheElements finding (or not) the two elements.  The script
\* calls init at once when the document is already parsed, and an exception
\* of init then ends the script before it registers its request listener;
\* on a document still loading the listener is registered first and init runs
\* from DOMContentLoaded.
init(s, config, styleFound, iconFound, readyState) ==
  LET s0 == [s EXCEPT !.themeVariablesStyle = styleFound, !.themeIcon = iconFound]
      s1 == applyTheme(loadThemePreferences(s0, config))
  IN IF s1.threw
     THEN [s1 EXCEPT !.themeReady = "failed",
                     !.themeRequestListener = (readyState = "loading")]
     ELSE [watchSystemTheme(createThemePicker(s1))
             EXCEPT !.themeReady = "ready", !.themeRequestListener = TRUE]

\* the change listener without its test of currentMode
onSystemThemeChangeAnyMode(s) ==
  IF s.themeWatching THEN applyTheme(s) ELSE s

\* the matchMedia 'change' listener of watchSystemTheme
onSystemThemeChange(s) ==
  IF s.themeWatching /\ s.currentMode = "auto" THEN applyTheme(s) ELSE s

\* the requestThemeChange listener; detail.theme / detail.mode may be absent
onRequestThemeChange(s, detail) ==
  IF ~s.themeRequestListener THEN s
  ELSE LET s1 == IF detail.theme /= NULL THEN changeTheme(s, detail.theme) ELSE s
       IN IF s1.threw \/ detail.mode = NULL THEN s1 ELSE setMode(s1, detail.mode)

(***************************************************************************)
(* fonts.js : functions                                                    *)
(***************************************************************************)
\* a property of TABLE[key] as a template literal interpolates it
Interpolate(table, key, field) ==
  IF key \in DOMAIN table THEN table[key][field] ELSE "undefined"

FontSheet(key) ==
  [fontHeading |-> Interpolate(FONT_PALETTES, key, "heading"),
   fontBody |-> Interpolate(FONT_PALETTES, key, "body"),
   fontAccent |-> Interpolate(FONT_PALETTES, key, "accent")]

updateFontVariables(s) ==
  [s EXCEPT !.fontCss = SetTextContent(@, FontSheet(s.currentFontPalette))]

saveFontPreferences(s) ==
  [s EXCEPT !.localStorage = [@ EXCEPT !["portfolio-font-palette"] = s.currentFontPalette]]

dispatchFontChangeEvent(s) ==
  [s EXCEPT !.emitted = Append(@,
     [type |-> "fontchange",
      detail |-> [fontPalette |-> s.currentFontPalette,
                  palette |-> Lookup(FONT_PALETTES, s.currentFontPalette)],
      seen |-> [stored |-> <<s.localStorage["portfolio-font-palette"]>>,
                current |-> <<s.currentFontPalette>>,
                css |-> s.fontCss]])]

\* the lexemes up to the next space
RECURSIVE RunLength(_)
RunLength(cls) ==
  IF cls = <<>> \/ cls[1] = " " THEN 0 ELSE 1 + RunLength(Tail(cls))

\* className.replace(/font-palette-[\w-]+/g, ''): [\w-]+ runs to the next space
RECURSIVE ReplaceFontClasses(_)
ReplaceFontClasses(cls) ==
  IF cls = <<>> THEN <<>>
  ELSE IF /\ Len(cls) >= 5
          /\ SubSeq(cls, 1, 4) = <<"font", "-", "palette", "-">>
          /\ cls[5] /= " "
       THEN ReplaceFontClasses(SubSeq(cls, RunLength(cls) + 1, Len(cls)))
       ELSE <<cls[1]>> \o ReplaceFontClasses(Tail(cls))

\* the DOMTokenList of a class attribute: its space-separated tokens, each
\* once, in order
RECURSIVE SplitOnSpaces(_)
SplitOnSpaces(cls) ==
  IF cls = <<>> THEN <<>>
  ELSE IF cls[1] = " " THEN SplitOnSpaces(Tail(cls))
       ELSE <<SubSeq(cls, 1, RunLength(cls))>>
              \o SplitOnSpaces(SubSeq(cls, RunLength(cls) + 1, Len(cls)))

RECURSIVE Unique(_)
Unique(tokens) ==
  IF tokens = <<>> THEN <<>>
  ELSE LET front == Unique(SubSeq(tokens, 1, Len(tokens) - 1))
           last == tokens[Len(tokens)]
       IN IF \E i \in 1..Len(front) : front[i] = last THEN front
          ELSE Append(front, last)

classList(cls) == Unique(SplitOnSpaces(cls))

\* the attribute a DOMTokenList writes back: its tokens with one space between
RECURSIVE Serialize(_)
Serialize(tokens) ==
  IF tokens = <<>> THEN <<>>
  ELSE IF Len(tokens) = 1 THEN tokens[1]
       ELSE tokens[1] \o <<" ">> \o Serialize(Tail(tokens))

\* classList.add(token)
classListAdd(cls, token) == Serialize(Unique(Append(classList(cls), token)))

\* palette.className; undefined, converted to a string, for an inherited name
PaletteClassName(key) ==
  IF key \in DOMAIN FONT_PALETTES THEN FONT_PALETTES[key].className
  ELSE "undefined"

\* the palette's class name assigned to className
setFontClassName(s) ==
  [s EXCEPT !.rootClass = Lexemes(PaletteClassName(s.currentFontPalette))]

setFontClass(s) ==
  [s EXCEPT !.rootClass = classListAdd(ReplaceFontClasses(@),
                             Lexemes(PaletteClassName(s.currentFontPalette)))]

applyFontPalette(s) ==
  IF ~HasProperty(FONT_PALETTES, s.currentFontPalette) THEN s
  ELSE dispatchFontChangeEvent(saveFontPreferences(updateFontVariables(
         setFontClass(s))))

updateFontPickerSelection(s) ==
  IF ~s.fontPicker.exists THEN s
  ELSE [s EXCEPT !.fontPicker =
          [exists |-> TRUE,
           font |-> ActiveOption(DOMAIN FONT_PALETTES, s.currentFontPalette)]]

changeFontPalette(s, paletteKey) ==
  IF ~HasProperty(FONT_PALETTES, paletteKey) THEN s
  ELSE updateFontPickerSelection(
         applyFontPalette([s EXCEPT !.currentFontPalette = paletteKey]))

applyExternalFont(s, fontKey) ==
  IF HasProperty(FONT_PALETTES, fontKey)
  THEN updateFontPickerSelection(
         applyFontPalette([s EXCEPT !.currentFontPalette = fontKey]))
  ELSE s

loadFontPreferences(s, config) ==
  LET savedFontPalette == s.localStorage["portfolio-font-palette"]
  IN IF savedFontPalette /= NULL /\ HasProperty(FONT_PALETTES, savedFontPalette)
     THEN [s EXCEPT !.currentFontPalette = savedFontPalette]
     ELSE IF config.ACTIVE_FONT_PALETTE /= NULL
          THEN [s EXCEPT !.currentFontPalette = config.ACTIVE_FONT_PALETTE]
          ELSE s

createFontPicker(s) ==
  [s EXCEPT !.fontPicker =
     [exists |-> TRUE,
      font |-> ActiveOption(DOMAIN FONT_PALETTES, s.currentFontPalette)]]

fontInit(s, config) ==
  [createFontPicker(applyFontPalette(loadFontPreferences(s, config)))
     EXCEPT !.fontReady = "ready"]

\* keydown with Alt and a DigitN code: fontKeys[N - 1]
onFontAltDigit(s, digit) ==
  IF digit \in 1..Len(FontKeys) THEN changeFontPalette(s, FontKeys[digit]) ELSE s

onRequestFontChange(s, detail) ==
  IF detail.fontPalette /= NULL THEN changeFontPalette(s, detail.fontPalette) ELSE s

(***************************************************************************)
(* font-size.js : functions                                                *)
(***************************************************************************)
\* setting.scale, undefined (NaN in a product) on an inherited property
ScaleOf(key) ==
  IF key \in DOMAIN FONT_SIZE_SETTINGS THEN FONT_SIZE_SETTINGS[key].scale ELSE NaN

\* The sheet's sixteen sizes.  scaledBase is in 1/100 px; a size keeps the
\* unit of its product: xs, xl in 1/10^4 px, sm, lg in 1/10^5 px, headings
\* and display sizes in 1/10^6 px, h6 in 1/10^4 px.
FontSizeSheet(scaledBase, headingScale, smallScale) ==
  [base |-> scaledBase,
   xs |-> Mul(scaledBase, 75),
   sm |-> Mul(scaledBase, smallScale),
   lg |-> Mul(scaledBase, 1125),
   xl |-> Mul(scaledBase, 125),
   h1 |-> Mul(Mul(scaledBase, headingScale), 250),
   h2 |-> Mul(Mul(scaledBase, headingScale), 200),
   h3 |-> Mul(Mul(scaledBase, headingScale), 175),
   h4 |-> Mul(Mul(scaledBase, headingScale), 150),
   h5 |-> Mul(Mul(scaledBase, headingScale), 125),
   h6 |-> Mul(scaledBase, headingScale),
   display1 |-> Mul(Mul(scaledBase, headingScale), 600),
   display2 |-> Mul(Mul(scaledBase, headingScale), 550),
   display3 |-> Mul(Mul(scaledBase, headingScale), 450),
   display4 |-> Mul(Mul(scaledBase, headingScale), 350)]

updateFontSizeVariables(s, scaledBase) ==
  [s EXCEPT !.fontSizeCss =
     SetTextContent(@, FontSizeSheet(scaledBase, s.currentHeadingScale,
                                     s.currentSmallScale))]

saveFontSizePreferences(s) ==
  [s EXCEPT !.localStorage = [@ EXCEPT !["portfolio-font-size"] = s.currentFontSize]]

dispatchFontSizeChangeEvent(s) ==
  [s EXCEPT !.emitted = Append(@,
     [type |-> "fontsizechange",
      detail |-> [fontSize |-> s.currentFontSize,
                  setting |-> Lookup(FONT_SIZE_SETTINGS, s.currentFontSize),
                  baseSize |-> s.currentBaseSize,
                  headingScale |-> s.currentHeadingScale,
                  smallScale |-> s.currentSmallScale],
      seen |-> [stored |-> <<s.localStorage["portfolio-font-size"]>>,
                current |-> <<s.currentFontSize>>,
                css |-> s.fontSizeCss]])]

\* applyFontSizes scaling the entry's own baseSize instead of the current one
applyFontSizesFromEntry(s) ==
  IF ~HasProperty(FONT_SIZE_SETTINGS, s.currentFontSize) THEN s
  ELSE LET basePixels == parseFloat(Lookup(FONT_SIZE_SETTINGS, s.currentFontSize).baseSize)
           scaledBase == Mul(basePixels, ScaleOf(s.currentFontSize))
       IN dispatchFontSizeChangeEvent(
            saveFontSizePreferences(updateFontSizeVariables(s, scaledBase)))

applyFontSizes(s) ==
  IF ~HasProperty(FONT_SIZE_SETTINGS, s.currentFontSize) THEN s
  ELSE LET basePixels == parseFloat(s.currentBaseSize)
           scaledBase == Mul(basePixels, ScaleOf(s.currentFontSize))
       IN dispatchFontSizeChangeEvent(
            saveFontSizePreferences(updateFontSizeVariables(s, scaledBase)))

updateFontSizePickerSelection(s) ==
  IF ~s.fontSizePicker.exists THEN s
  ELSE [s EXCEPT !.fontSizePicker =
          [exists |-> TRUE,
           size |-> ActiveOption(DOMAIN FONT_SIZE_SETTINGS, s.currentFontSize)]]

changeFontSize(s, sizeKey) ==
  IF ~HasProperty(FONT_SIZE_SETTINGS, sizeKey) THEN s
  ELSE updateFontSizePickerSelection(
         applyFontSizes([s EXCEPT !.currentFontSize = sizeKey]))

Min(a, b) == IF a < b THEN a ELSE b

Max(a, b) == IF a > b THEN a ELSE b

\* an increase that goes round to the first size instead of stopping at the
\* last
increaseFontSizeWrapping(s) ==
  LET currentIndex == IndexOf(SizeKeys, s.currentFontSize)
      nextIndex == (currentIndex + 1) % Len(SizeKeys)
  IN IF nextIndex /= currentIndex THEN changeFontSize(s, SizeKeys[nextIndex + 1]) ELSE s

increaseFontSize(s) ==
  LET currentIndex == IndexOf(SizeKeys, s.currentFontSize)
      nextIndex == Min(currentIndex + 1, Len(SizeKeys) - 1)
  IN IF nextIndex /= currentIndex THEN changeFontSize(s, SizeKeys[nextIndex + 1]) ELSE s

decreaseFontSize(s) ==
  LET currentIndex == IndexOf(SizeKeys, s.currentFontSize)
      prevIndex == Max(currentIndex - 1, 0)
  IN IF prevIndex /= currentIndex THEN changeFontSize(s, SizeKeys[prevIndex + 1]) ELSE s

resetFontSize(s) == changeFontSize(s, "normal")

applyExternalFontSize(s, sizeKey) ==
  IF HasProperty(FONT_SIZE_SETTINGS, sizeKey)
  THEN updateFontSizePickerSelection(
         applyFontSizes([s EXCEPT !.currentFontSize = sizeKey]))
  ELSE s

\* a falsy argument (undefined, null, 0, '') leaves the setting alone
updateServerFontSettings(s, baseSize, headingScale, smallScale) ==
  LET s1 == IF baseSize /= NULL THEN [s EXCEPT !.currentBaseSize = baseSize] ELSE s
      s2 == IF headingScale /= 0 THEN [s1 EXCEPT !.currentHeadingScale = headingScale]
            ELSE s1
      s3 == IF smallScale /= 0 THEN [s2 EXCEPT !.currentSmallScale = smallScale]
            ELSE s2
  IN applyFontSizes(s3)

loadFontSizePreferences(s) ==
  LET savedFontSize == s.localStorage["portfolio-font-size"]
  IN IF savedFontSize /= NULL /\ HasProperty(FONT_SIZE_SETTINGS, savedFontSize)
     THEN [s EXCEPT !.currentFontSize = savedFontSize]
     ELSE s

loadServerFontSettings(s, config) ==
  LET s1 == IF config.BASE_FONT_SIZE /= NULL
            THEN [s EXCEPT !.currentBaseSize = config.BASE_FONT_SIZE] ELSE s
      s2 == IF config.HEADING_FONT_SCALE /= 0
            THEN [s1 EXCEPT !.currentHeadingScale = config.HEADING_FONT_SCALE] ELSE s1
  IN IF config.SMALL_FONT_SCALE /= 0
     THEN [s2 EXCEPT !.currentSmallScale = config.SMALL_FONT_SCALE] ELSE s2

createFontSizePicker(s) ==
  [s EXCEPT !.fontSizePicker =
     [exists |-> TRUE,
      size |-> ActiveOption(DOMAIN FONT_SIZE_SETTINGS, s.currentFontSize)]]

fontSizeInit(s, config) ==
  [createFontSizePicker(
     applyFontSizes(loadServerFontSettings(loadFontSizePreferences(s), config)))
     EXCEPT !.fontSizeReady = "ready"]

onRequestFontSizeChange(s, detail) ==
  IF detail.fontSize /= NULL THEN changeFontSize(s, detail.fontSize) ELSE s

(***************************************************************************)
(* main script : quick search                                              *)
(* A string the code measures or trims is the sequence of its characters.  *)
(* Time is counted in units of 100 ms.                                     *)
(***************************************************************************)
\* the delay of the input handler's setTimeout, 300 ms
DebounceDelay == 3

\* the length below which the input handler does not search
MinQueryLength == 2

WhiteSpace == {" "}

RECURSIVE TrimStart(_)
TrimStart(str) ==
  IF str /= <<>> /\ Head(str) \in WhiteSpace THEN TrimStart(Tail(str)) ELSE str

RECURSIVE TrimEnd(_)
TrimEnd(str) ==
  IF str /= <<>> /\ str[Len(str)] \in WhiteSpace
  THEN TrimEnd(SubSeq(str, 1, Len(str) - 1))
  ELSE str

\* String.prototype.trim
Trim(str) == TrimEnd(TrimStart(str))

\* encodeURIComponent on letters, spaces and '#'
RECURSIVE encodeURIComponent(_)
encodeURIComponent(str) ==
  IF str = <<>> THEN <<>>
  ELSE (CASE Head(str) = " " -> <<"%", "2", "0">>
          [] Head(str) = "#" -> <<"%", "2", "3">>
          [] OTHER -> <<Head(str)>>)
       \o encodeURIComponent(Tail(str))

\* the handle setTimeout returns: an id no pending timer and no kept handle has
FreshTimerId(s) ==
  CHOOSE i \in 1..(Cardinality(s.timers) + 2) :
    i /= s.searchTimeout /\ \A tm \in s.timers : tm.id /= i

\* clearTimeout that forgets to cancel
KeepTimeout(s, handle) == s

clearTimeout(s, handle) ==
  [s EXCEPT !.timers = {tm \in @ : tm.id /= handle}]

showSearchResults(s) ==
  IF s.elements.searchResults THEN [s EXCEPT !.searchResultsDisplay = "block"] ELSE s

hideSearchResults(s) ==
  IF s.elements.searchResults THEN [s EXCEPT !.searchResultsDisplay = "none"] ELSE s

showLoading(s) ==
  IF s.elements.loadingSpinner
  THEN [s EXCEPT !.loadingDisplay = "flex", !.isLoading = TRUE] ELSE s

hideLoading(s) ==
  IF s.elements.loadingSpinner
  THEN [s EXCEPT !.loadingDisplay = "none", !.isLoading = FALSE] ELSE s

\* no request was issued yet
NoRequest == [path |-> NULL, q |-> <<>>]

\* showLoading, then fetch() of the search URL
performSearch(s, query) ==
  IF ~s.elements.searchResults THEN s
  ELSE LET url == [path |-> "/api/search/", q |-> encodeURIComponent(query)]
       IN [showLoading(s) EXCEPT !.fetches = Append(@, url), !.lastIssued = url]

\* an input listener that aborts the requests in flight when the query is
\* short
onSearchInputAborting(s, value) ==
  LET query == Trim(value)
      s1 == clearTimeout([s EXCEPT !.searchInputValue = value, !.idle = 0],
                         s.searchTimeout)
  IN IF Len(query) < MinQueryLength
     THEN hideSearchResults([s1 EXCEPT !.fetches = <<>>])
     ELSE LET id == FreshTimerId(s1)
          IN [s1 EXCEPT !.searchTimeout = id,
                        !.timers = @ \cup {[id |-> id, query |-> query,
                                            remaining |-> DebounceDelay]}]

\* an input listener that searches at once
onSearchInputAtOnce(s, value) ==
  LET query == Trim(value)
      s1 == [s EXCEPT !.searchInputValue = value, !.idle = 0]
  IN IF Len(query) < MinQueryLength THEN hideSearchResults(s1)
     ELSE performSearch(s1, query)

\* the 'input' listener of initSearch
onSearchInput(s, value) ==
  LET query == Trim(value)
      s1 == clearTimeout([s EXCEPT !.searchInputValue = value, !.idle = 0],
                         s.searchTimeout)
  IN IF Len(query) < MinQueryLength THEN hideSearchResults(s1)
     ELSE LET id == FreshTimerId(s1)
          IN [s1 EXCEPT !.searchTimeout = id,
                        !.timers = @ \cup {[id |-> id, query |-> query,
                                            remaining |-> DebounceDelay]}]

\* the callback of the input handler's timer
onSearchTimeout(s, tm) ==
  performSearch([s EXCEPT !.timers = @ \ {tm}], tm.query)

\* a click listener that cancels the pending timer of the input listener
onSuggestionClickCancelling(s, textContent) ==
  performSearch(clearTimeout([s EXCEPT !.searchInputValue = textContent],
                             s.searchTimeout), textContent)

\* the 'click' listener of a .search-suggestion element
onSuggestionClick(s, textContent) ==
  performSearch([s EXCEPT !.searchInputValue = textContent], textContent)

getItemUrl(item, type) ==
  CASE type = "project" -> <<"/projects/", item.slug, "/">>
    [] type = "blog" -> <<"/blog/", item.slug, "/">>
    [] type = "service" -> <<"/services/#", item.slug>>
    [] OTHER -> <<"#">>

createSearchSection(title, items, type) ==
  [title |-> title,
   links |-> [i \in 1..Len(items) |->
                [href |-> getItemUrl(items[i], type), text |-> items[i].title]]]

NoResults == [placeholder |-> "No results found."]

\* A property of the response object: undefined, or an array.
Undefined == [defined |-> FALSE, array |-> <<>>]

Array(items) == [defined |-> TRUE, array |-> items]

\* data.kind && data.kind.length > 0
NonEmpty(kind) == kind.defined /\ Len(kind.array) > 0

\* displaySearchResults without container.innerHTML = ''
displaySearchResultsAppending(s, data) ==
  IF ~s.elements.searchResults THEN s
  ELSE LET c0 == s.searchContainer
           c1 == IF NonEmpty(data.projects)
                 THEN Append(c0, createSearchSection("Projects", data.projects.array, "project"))
                 ELSE c0
           c2 == IF NonEmpty(data.blog_posts)
                 THEN Append(c1, createSearchSection("Articles", data.blog_posts.array, "blog"))
                 ELSE c1
           c3 == IF NonEmpty(data.services)
                 THEN Append(c2, createSearchSection("Services", data.services.array, "service"))
                 ELSE c2
       IN [s EXCEPT !.searchContainer = IF Len(c3) = 0 THEN <<NoResults>> ELSE c3]

displaySearchResults(s, data) ==
  IF ~s.elements.searchResults THEN s
  ELSE LET c0 == <<>>
           c1 == IF NonEmpty(data.projects)
                 THEN Append(c0, createSearchSection("Projects", data.projects.array, "project"))
                 ELSE c0
           c2 == IF NonEmpty(data.blog_posts)
                 THEN Append(c1, createSearchSection("Articles", data.blog_posts.array, "blog"))
                 ELSE c1
           c3 == IF NonEmpty(data.services)
                 THEN Append(c2, createSearchSection("Services", data.services.array, "service"))
                 ELSE c2
       IN [s EXCEPT !.searchContainer = IF Len(c3) = 0 THEN <<NoResults>> ELSE c3]

\* removes the i-th element of a sequence
RemoveAt(seq, i) == SubSeq(seq, 1, i - 1) \o SubSeq(seq, i + 1, Len(seq))

\* a chain that clears the indicator in its then() only
onSearchResponseNoFinally(s, i, outcome) ==
  LET s1 == [s EXCEPT !.fetches = RemoveAt(@, i)]
  IN IF outcome.ok
     THEN hideLoading(showSearchResults(displaySearchResults(s1, outcome.data)))
     ELSE hideSearchResults(s1)

\* a chain that drops the response of a request that is not the last issued
onSearchResponseSequenced(s, i, outcome) ==
  LET s1 == [s EXCEPT !.fetches = RemoveAt(@, i)]
      s2 == IF ~outcome.ok THEN hideSearchResults(s1)
            ELSE IF s.fetches[i] /= s.lastIssued THEN s1
            ELSE showSearchResults(displaySearchResults(s1, outcome.data))
  IN hideLoading(s2)

\* the promise chain of performSearch for the i-th request in flight:
\* then(json), then(display, show), catch(hide), finally(hideLoading).
\* outcome.ok is FALSE when fetch() or response.json() rejects.
onSearchResponse(s, i, outcome) ==
  LET s1 == [s EXCEPT !.fetches = RemoveAt(@, i)]
      s2 == IF outcome.ok
            THEN showSearchResults(displaySearchResults(s1, outcome.data))
            ELSE hideSearchResults(s1)
  IN hideLoading(s2)

\* 100 ms pass without an event: every pending timer is 100 ms closer to due
elapse(s) ==
  [s EXCEPT !.idle = Min(@ + 1, DebounceDelay),
            !.timers = {[tm EXCEPT !.remaining = Max(@ - 1, 0)] : tm \in @},
            !.cookieBanner.timer = [n \in DOMAIN @ |-> Max(@[n] - 1, 0)]]

\* the delay of the banner's timer, 2000 ms, in steps of 100 ms
CookieBannerDelay == 20

\* the banner of a page before initCookieBanner: the display its style sheet
\* gives it, no timer, no listeners
NoCookieBanner == [display |-> "", timer |-> <<>>, accept |-> FALSE, decline |-> FALSE]

\* initCookieBanner without the test of the stored item
initCookieBannerUnchecked(s, buttons) ==
  IF ~s.elements.cookieBanner THEN s
  ELSE [s EXCEPT !.cookieBanner.timer = <<CookieBannerDelay>>,
                 !.cookieBanner.accept = buttons.accept,
                 !.cookieBanner.decline = buttons.decline]

\* buttons: which of #cookie-accept and #cookie-decline the document has
initCookieBanner(s, buttons) ==
  IF ~s.elements.cookieBanner THEN s
  ELSE IF s.localStorage["cookiesAccepted"] \notin {NULL, ""} THEN s
  ELSE [s EXCEPT !.cookieBanner.timer = <<CookieBannerDelay>>,
                 !.cookieBanner.accept = buttons.accept,
                 !.cookieBanner.decline = buttons.decline]

\* the callback of initCookieBanner's timer
onCookieTimeout(s) ==
  [s EXCEPT !.cookieBanner.timer = <<>>, !.cookieBanner.display = "block"]

\* the 'click' listener of #cookie-accept
onCookieAccept(s) ==
  [s EXCEPT !.localStorage["cookiesAccepted"] = "true",
            !.cookieBanner.display = "none"]

\* the 'click' listener of #cookie-decline
onCookieDecline(s) ==
  [s EXCEPT !.cookieBanner.display = "none"]

\* cacheElements, initSearch and initCookieBanner of init
mainInit(s, found, buttons) ==
  initCookieBanner([s EXCEPT !.elements = found, !.mainReady = "ready"], buttons)

(***************************************************************************)
(* image-picker.js, for one .image-picker-container that has all its       *)
(* elements.  A string whose prefix the code tests is the sequence of its  *)
(* tokens: the type 'image/png' is <<"image", "/", "png">>.                *)
(***************************************************************************)
\* String.prototype.startsWith
StartsWith(str, prefix) ==
  Len(str) >= Len(prefix) /\ SubSeq(str, 1, Len(prefix)) = prefix

\* window.alert
alert(s, message) ==
  [s EXCEPT !.emitted = Append(@, [type |-> "alert", message |-> message])]

\* atob of a one-token string: the bytes, or NULL when it throws
atob(str) ==
  CASE str = <<"aGVsbG8=">> -> "hello"
    [] str = <<"aGVsbG8">> -> "hello"
    [] OTHER -> NULL

btoa(bytes) == IF bytes = "hello" THEN <<"aGVsbG8=">> ELSE <<>>

isValidBase64Image(str) ==
  IF str = <<>> THEN FALSE
  ELSE IF StartsWith(str, <<"data:", "image", "/">>) THEN TRUE
  ELSE IF atob(str) = NULL THEN FALSE
  ELSE btoa(atob(str)) = str

\* updatePreviewDisplay without its else branch
updatePreviewDisplayShowOnly(s) ==
  LET base64Data == Trim(s.textareaValue)
  IN IF base64Data /= <<>> /\ isValidBase64Image(base64Data)
     THEN [s EXCEPT !.previewSrc = base64Data, !.previewDisplay = "block"]
     ELSE s

updatePreviewDisplay(s) ==
  LET base64Data == Trim(s.textareaValue)
  IN IF base64Data /= <<>> /\ isValidBase64Image(base64Data)
     THEN [s EXCEPT !.previewSrc = base64Data, !.previewDisplay = "block"]
     ELSE [s EXCEPT !.previewDisplay = "none"]

\* FileReader.readAsDataURL: the result for a file
readAsDataURL(file) == <<"data:">> \o file.type \o <<";base64,", file.name>>

\* 2 * 1024 * 1024
maxSize == 2 * 1024 * 1024

\* a size test that also turns away a file of exactly the limit
TooLargeFromLimit(file) == file.size >= maxSize

TooLarge(file) == file.size > maxSize

\* a handler that writes the field when the file is selected
handleImageFileAtOnce(s, file) ==
  IF ~StartsWith(file.type, <<"image", "/">>)
  THEN alert(s, "Please select a valid image file.")
  ELSE IF TooLarge(file)
  THEN alert(s, "Image file is too large. Please select an image smaller than 2MB.")
  ELSE updatePreviewDisplay([s EXCEPT !.textareaValue = readAsDataURL(file)])

handleImageFile(s, file) ==
  IF ~StartsWith(file.type, <<"image", "/">>)
  THEN alert(s, "Please select a valid image file.")
  ELSE IF TooLarge(file)
  THEN alert(s, "Image file is too large. Please select an image smaller than 2MB.")
  ELSE [s EXCEPT !.reads = Append(@, file)]

\* the 'change' listener of the file input, which then holds the file
onFileChange(s, file) ==
  handleImageFile([s EXCEPT !.fileInputValue = file.name], file)

\* an onload that drops the result of a read whose file the input no longer
\* holds
onReaderLoadOfSelection(s, i) ==
  IF s.fileInputValue = s.reads[i].name
  THEN updatePreviewDisplay([s EXCEPT !.reads = RemoveAt(@, i),
                                      !.textareaValue = readAsDataURL(s.reads[i])])
  ELSE [s EXCEPT !.reads = RemoveAt(@, i)]

\* reader.onload of the i-th read
onReaderLoad(s, i) ==
  LET base64Data == readAsDataURL(s.reads[i])
  IN updatePreviewDisplay([s EXCEPT !.reads = RemoveAt(@, i),
                                    !.textareaValue = base64Data])

\* reader.onerror of the i-th read
onReaderError(s, i) ==
  alert([s EXCEPT !.reads = RemoveAt(@, i)], "Error reading file. Please try again.")

\* the 'click' listener of .remove-image
clearImage(s) ==
  [s EXCEPT !.textareaValue = <<>>, !.previewDisplay = "none",
            !.fileInputValue = NULL]

\* the 'input' listener of the textarea, after the user's edit
updatePreviewFromBase64(s, value) ==
  [s EXCEPT !.textareaValue = value, !.previewTimers = @ + 1]

\* the callback of updatePreviewFromBase64's timer
onPreviewTimeout(s) ==
  updatePreviewDisplay([s EXCEPT !.previewTimers = @ - 1])

setupImagePicker(s) ==
  [updatePreviewDisplay(s) EXCEPT !.pickerReady = "ready"]

(***************************************************************************)
(* Inputs: the values the environment supplies (stored items, SITE_CONFIG  *)
(* fields, arguments).  Each set has table keys, an unknown name, and a    *)
(* name the table only inherits; the configuration sets have the           *)
(* underscore forms of the sample data guide.  NULL (0 for a number) is an *)
(* absent field or argument.                                               *)
(***************************************************************************)
\* the page that loads the three managers; the interleavings of its handlers
\* are enumerated for fewer values of each input
Site == {"theme.js", "fonts.js", "font-size.js"}

OnSite == scripts = Site

ThemeKeyInputs ==
  IF OnSite THEN {"ocean-deep"}
  ELSE {"ocean-deep", "bogus", "constructor"}

ConfigPalettes == IF OnSite THEN {NULL} ELSE {NULL, "ocean-deep", "electric_neon"}

ModeInputs == IF OnSite THEN {"dark"} ELSE {"dark", "auto", "system"}

ConfigModes == IF OnSite THEN {NULL} ELSE {NULL, "light", "system"}

\* whether cacheElements finds #theme-variables, #theme-icon
Found == IF OnSite THEN {TRUE} ELSE BOOLEAN

\* document.readyState when theme.js runs
ReadyStates == IF OnSite THEN {"interactive"} ELSE {"loading", "interactive"}

StoredThemes == {NULL, "sunset-gradient", "bogus", "constructor"}

StoredModes == {NULL, "dark", "bogus"}

FontKeyInputs ==
  IF OnSite THEN {"tech-minimalist"}
  ELSE {"tech-minimalist", "warm-humanist", "bogus", "constructor"}

ConfigFontPalettes ==
  IF OnSite THEN {NULL} ELSE {NULL, "creative-editorial", "modern_professional"}

StoredFontPalettes == {NULL, "tech-minimalist", "bogus", "constructor"}

SizeKeyInputs == IF OnSite THEN {"large"} ELSE {"large", "small", "bogus", "constructor"}

StoredSizes == {NULL, "large", "bogus", "constructor"}

BaseSizeInputs == IF OnSite THEN {NULL} ELSE {NULL, "18px", "medium"}

HeadingScaleInputs == IF OnSite THEN {0} ELSE {0, 150}

SmallScaleInputs == IF OnSite THEN {0} ELSE {0, 750}

\* the DigitN key codes tried with Alt: Digit0 .. Digit<MaxDigit>
MaxDigit == 5

\* what the user types into #search-input
SearchInputValues ==
  {<<" ", "a", " ">>, <<" ", "c", "#">>}

\* which of its elements cacheElements finds: a page has the search elements
\* or the cookie banner
FoundElements ==
  {[searchInput |-> input, searchResults |-> results, loadingSpinner |-> spinner,
    cookieBanner |-> FALSE] :
     input \in BOOLEAN, results \in BOOLEAN, spinner \in BOOLEAN}
  \cup {[searchInput |-> FALSE, searchResults |-> FALSE, loadingSpinner |-> FALSE,
         cookieBanner |-> TRUE]}

\* whether a button of the banner is in the document
CookieButtons(found) == IF found.cookieBanner THEN BOOLEAN ELSE {FALSE}

\* the text of the page's .search-suggestion elements
Suggestions == {<<"a">>}

\* the items the server finds for the q of a request
SearchItems(q) == <<[slug |-> q, title |-> q]>>

\* what a request can end with: a JSON object in which a kind is absent,
\* empty or has items, a rejected fetch(), a body response.json() rejects
Outcomes(url) ==
  {[ok |-> TRUE, data |-> [projects |-> p, blog_posts |-> b, services |-> v]] :
     p \in {Undefined, Array(SearchItems(url.q))},
     b \in {Array(<<>>), Array(SearchItems(url.q))},
     v \in {Undefined, Array(SearchItems(url.q))}}
  \cup {[ok |-> FALSE, error |-> "TypeError: Failed to fetch"],
        [ok |-> FALSE, error |-> "SyntaxError: Unexpected token"]}

\* the files the user selects
Files ==
  {[name |-> "photo.jpg", type |-> <<"image", "/", "jpeg">>, size |-> 1024 * 1024],
   [name |-> "exact.png", type |-> <<"image", "/", "png">>, size |-> 2 * 1024 * 1024],
   [name |-> "over.png", type |-> <<"image", "/", "png">>, size |-> 2 * 1024 * 1024 + 1],
   [name |-> "big.jpg", type |-> <<"image", "/", "jpeg">>, size |-> 3 * 1024 * 1024],
   [name |-> "notes.txt", type |-> <<"text", "/", "plain">>, size |-> 1024]}

\* what the server renders into the textarea
RenderedValues == {<<>>, <<"data:", "image", "/", "gif", ";base64,", "logo.gif">>}

\* what the user types or pastes into the textarea
TextareaInputs == {<<"aGVsbG8=">>, <<"aGVsbG8">>, <<" ", "data:", "image", "/", "gif", ";base64,", "logo.gif">>}

\* FileReader reads under way at once
MaxReads == 2

\* preview timers pending at once
MaxPreviewTimers == 2

\* requests in flight at once
MaxInFlight == 2

\* spaces in the root's class attribute: applyTheme appends one with every
\* apply and removes none, so the attribute grows until a classList call
\* rewrites it
MaxClassSpaces == 2

\* timers pending at once
MaxTimers == 2

\* the pages: which of the scripts a page loads
Pages == {{"theme.js"}, {"fonts.js"}, {"font-size.js"}, Site, {"main.js"},
          {"image-picker.js"}}

\* the stored items a page's scripts read
StoredValues(page, item) ==
  CASE page = Site -> {NULL}
    [] item = "portfolio-theme" /\ "theme.js" \in page -> StoredThemes
    [] item = "portfolio-mode" /\ "theme.js" \in page -> StoredModes
    [] item = "portfolio-font-palette" /\ "fonts.js" \in page -> StoredFontPalettes
    [] item = "portfolio-font-size" /\ "font-size.js" \in page -> StoredSizes
    [] OTHER -> {NULL}

(***************************************************************************)
(* Actions                                                                 *)
(***************************************************************************)
Init ==
  /\ scripts \in Pages
  /\ localStorage \in {f \in [StorageItems -> StoredThemes \cup StoredModes \cup
                                StoredFontPalettes \cup StoredSizes] :
                         \A i \in StorageItems : f[i] \in StoredValues(scripts, i)}
  /\ prefersDark \in (IF scripts = {"theme.js"} THEN BOOLEAN ELSE {FALSE})
  /\ currentTheme = "electric-neon"
  /\ currentMode = "auto"
  /\ themeVariablesStyle = FALSE
  /\ themeIcon = FALSE
  /\ themeCss = <<>>
  /\ themeIconClass = {}
  /\ dataBsTheme = NULL
  /\ rootClass = <<>>
  /\ themePicker = [exists |-> FALSE, theme |-> NULL, mode |-> NULL]
  /\ themeWatching = FALSE
  /\ themeRequestListener = FALSE
  /\ themeReady = "loading"
  /\ currentFontPalette = "modern-professional"
  /\ fontCss = <<>>
  /\ fontPicker = [exists |-> FALSE, font |-> NULL]
  /\ fontReady = "loading"
  /\ currentFontSize = "normal"
  /\ currentBaseSize = "16px"
  /\ currentHeadingScale = 125
  /\ currentSmallScale = 875
  /\ fontSizeCss = <<>>
  /\ fontSizePicker = [exists |-> FALSE, size |-> NULL]
  /\ fontSizeReady = "loading"
  /\ elements = [searchInput |-> FALSE, searchResults |-> FALSE, cookieBanner |-> FALSE,
                 loadingSpinner |-> FALSE]
  /\ mainReady = "loading"
  /\ searchInputValue = <<>>
  /\ searchTimeout = 0
  /\ timers = {}
  /\ idle = DebounceDelay
  /\ fetches = <<>>
  /\ lastIssued = NoRequest
  /\ searchResultsDisplay = ""
  /\ searchContainer = <<>>
  /\ loadingDisplay = ""
  /\ isLoading = FALSE
  /\ cookieBanner = NoCookieBanner
  /\ pickerReady = "loading"
  /\ textareaValue \in (IF "image-picker.js" \in scripts THEN RenderedValues
                        ELSE {<<>>})
  /\ previewSrc = <<>>
  /\ previewDisplay = ""
  /\ fileInputValue = NULL
  /\ reads = <<>>
  /\ previewTimers = 0
  /\ emitted = <<>>
  /\ threw = FALSE
  /\ lastCall = [fn |-> "load", args |-> <<>>]

\* the handler fn(args) ran and left the state t
Return(t, fn, args) ==
  /\ Len(SelectSeq(t.rootClass, LAMBDA lexeme : lexeme = " ")) <= MaxClassSpaces
  /\ scripts' = t.scripts
  /\ localStorage' = t.localStorage
  /\ prefersDark' = t.prefersDark
  /\ currentTheme' = t.currentTheme
  /\ currentMode' = t.currentMode
  /\ themeVariablesStyle' = t.themeVariablesStyle
  /\ themeIcon' = t.themeIcon
  /\ themeCss' = t.themeCss
  /\ themeIconClass' = t.themeIconClass
  /\ dataBsTheme' = t.dataBsTheme
  /\ rootClass' = t.rootClass
  /\ themePicker' = t.themePicker
  /\ themeWatching' = t.themeWatching
  /\ themeRequestListener' = t.themeRequestListener
  /\ themeReady' = t.themeReady
  /\ currentFontPalette' = t.currentFontPalette
  /\ fontCss' = t.fontCss
  /\ fontPicker' = t.fontPicker
  /\ fontReady' = t.fontReady
  /\ currentFontSize' = t.currentFontSize
  /\ currentBaseSize' = t.currentBaseSize
  /\ currentHeadingScale' = t.currentHeadingScale
  /\ currentSmallScale' = t.currentSmallScale
  /\ fontSizeCss' = t.fontSizeCss
  /\ fontSizePicker' = t.fontSizePicker
  /\ fontSizeReady' = t.fontSizeReady
  /\ elements' = t.elements
  /\ mainReady' = t.mainReady
  /\ searchInputValue' = t.searchInputValue
  /\ searchTimeout' = t.searchTimeout
  /\ timers' = t.timers
  /\ idle' = t.idle
  /\ fetches' = t.fetches
  /\ lastIssued' = t.lastIssued
  /\ searchResultsDisplay' = t.searchResultsDisplay
  /\ searchContainer' = t.searchContainer
  /\ loadingDisplay' = t.loadingDisplay
  /\ isLoading' = t.isLoading
  /\ cookieBanner' = t.cookieBanner
  /\ pickerReady' = t.pickerReady
  /\ textareaValue' = t.textareaValue
  /\ previewSrc' = t.previewSrc
  /\ previewDisplay' = t.previewDisplay
  /\ fileInputValue' = t.fileInputValue
  /\ reads' = t.reads
  /\ previewTimers' = t.previewTimers
  /\ emitted' = t.emitted
  /\ threw' = t.threw
  /\ lastCall' = [fn |-> fn, args |-> args]

\* the values Init gives the variables of the document and of the scripts
Fresh ==
  [currentTheme |-> "electric-neon", currentMode |-> "auto",
   themeVariablesStyle |-> FALSE, themeIcon |-> FALSE, themeCss |-> <<>>,
   themeIconClass |-> {}, dataBsTheme |-> NULL, rootClass |-> <<>>,
   themePicker |-> [exists |-> FALSE, theme |-> NULL, mode |-> NULL],
   themeWatching |-> FALSE, themeRequestListener |-> FALSE,
   themeReady |-> "loading",
   currentFontPalette |-> "modern-professional", fontCss |-> <<>>,
   fontPicker |-> [exists |-> FALSE, font |-> NULL], fontReady |-> "loading",
   currentFontSize |-> "normal", currentBaseSize |-> "16px",
   currentHeadingScale |-> 125, currentSmallScale |-> 875,
   fontSizeCss |-> <<>>, fontSizePicker |-> [exists |-> FALSE, size |-> NULL],
   fontSizeReady |-> "loading",
   elements |-> [searchInput |-> FALSE, searchResults |-> FALSE,
                 loadingSpinner |-> FALSE, cookieBanner |-> FALSE],
   mainReady |-> "loading", searchInputValue |-> <<>>, searchTimeout |-> 0,
   timers |-> {}, idle |-> DebounceDelay, fetches |-> <<>>,
   lastIssued |-> NoRequest, searchResultsDisplay |-> "",
   searchContainer |-> <<>>, loadingDisplay |-> "", isLoading |-> FALSE,
   cookieBanner |-> NoCookieBanner,
   pickerReady |-> "loading", textareaValue |-> <<>>, previewSrc |-> <<>>,
   previewDisplay |-> "", fileInputValue |-> NULL, reads |-> <<>>,
   previewTimers |-> 0, emitted |-> <<>>, threw |-> FALSE]

\* the page is loaded again: a new document and new script instances; the
\* stored items and the platform preference stay
reload(s, rendered) ==
  [field \in DOMAIN s |->
     IF field \in {"scripts", "localStorage", "prefersDark"} THEN s[field]
     ELSE IF field = "textareaValue" THEN rendered
     ELSE Fresh[field]]

Reload ==
  /\ lastCall.fn /= "load"
  /\ \E rendered \in (IF "image-picker.js" \in scripts THEN RenderedValues
                       ELSE {<<>>}) :
       Return(reload(State, rendered), "load", <<>>)

ThemeInit ==
  /\ "theme.js" \in scripts
  /\ themeReady = "loading"
  /\ \E palette \in ConfigPalettes, mode \in ConfigModes,
        styleFound \in Found, iconFound \in Found,
        readyState \in ReadyStates :
       LET config == [ACTIVE_PALETTE |-> palette, DEFAULT_THEME |-> mode]
       IN Return(init(State, config, styleFound, iconFound, readyState),
                 "ThemeManager.init",
                 [config |-> config,
                  stored |-> [theme |-> localStorage["portfolio-theme"],
                              mode |-> localStorage["portfolio-mode"]]])

ChangeTheme ==
  /\ themeReady /= "loading"
  /\ \E themeKey \in ThemeKeyInputs :
       Return(changeTheme(State, themeKey), "changeTheme", [key |-> themeKey])

SetMode ==
  /\ themeReady /= "loading"
  /\ \E mode \in ModeInputs :
       Return(setMode(State, mode), "setMode", [mode |-> mode])

ToggleMode ==
  /\ themeReady /= "loading"
  /\ Return(toggleMode(State), "toggleMode", [from |-> currentMode])

ApplyExternalTheme ==
  /\ themeReady /= "loading"
  /\ \E themeKey \in ThemeKeyInputs \cup {NULL}, mode \in ModeInputs \cup {NULL} :
       Return(applyExternalTheme(State, themeKey, mode),
              "applyExternalTheme", [key |-> themeKey, mode |-> mode])

RequestThemeChange ==
  /\ themeReady /= "loading"
  /\ \E themeKey \in ThemeKeyInputs \cup {NULL}, mode \in ModeInputs \cup {NULL} :
       Return(onRequestThemeChange(State, [theme |-> themeKey, mode |-> mode]),
              "requestThemeChange", [key |-> themeKey, mode |-> mode])

SystemThemeChange ==
  /\ themeReady /= "loading"
  /\ Return(onSystemThemeChange([State EXCEPT !.prefersDark = ~prefersDark]),
            "systemThemeChange", [dark |-> ~prefersDark])

FontsInit ==
  /\ "fonts.js" \in scripts
  /\ fontReady = "loading"
  /\ \E palette \in ConfigFontPalettes :
       LET config == [ACTIVE_FONT_PALETTE |-> palette]
       IN Return(fontInit(State, config), "FontManager.init",
                 [config |-> config,
                  stored |-> [font |-> localStorage["portfolio-font-palette"]]])

ChangeFontPalette ==
  /\ fontReady /= "loading"
  /\ \E paletteKey \in FontKeyInputs :
       Return(changeFontPalette(State, paletteKey), "changeFontPalette",
              [key |-> paletteKey])

ApplyExternalFont ==
  /\ fontReady /= "loading"
  /\ \E fontKey \in FontKeyInputs \cup {NULL} :
       Return(applyExternalFont(State, fontKey), "applyExternalFont", [key |-> fontKey])

RequestFontChange ==
  /\ fontReady /= "loading"
  /\ \E fontKey \in FontKeyInputs \cup {NULL} :
       Return(onRequestFontChange(State, [fontPalette |-> fontKey]),
              "requestFontChange", [key |-> fontKey])

FontAltDigit ==
  /\ fontReady /= "loading"
  /\ \E digit \in 0..MaxDigit :
       Return(onFontAltDigit(State, digit), "fontAltDigit", [digit |-> digit])

FontSizeInit ==
  /\ "font-size.js" \in scripts
  /\ fontSizeReady = "loading"
  /\ \E base \in BaseSizeInputs, heading \in HeadingScaleInputs,
        small \in SmallScaleInputs :
       LET config == [BASE_FONT_SIZE |-> base, HEADING_FONT_SCALE |-> heading,
                      SMALL_FONT_SCALE |-> small]
       IN Return(fontSizeInit(State, config), "FontSizeManager.init",
                 [config |-> config,
                  stored |-> [size |-> localStorage["portfolio-font-size"]]])

ChangeFontSize ==
  /\ fontSizeReady /= "loading"
  /\ \E sizeKey \in SizeKeyInputs :
       Return(changeFontSize(State, sizeKey), "changeFontSize", [key |-> sizeKey])

IncreaseFontSize ==
  /\ fontSizeReady /= "loading"
  /\ Return(increaseFontSize(State), "increaseFontSize", [from |-> currentFontSize])

DecreaseFontSize ==
  /\ fontSizeReady /= "loading"
  /\ Return(decreaseFontSize(State), "decreaseFontSize", [from |-> currentFontSize])

ResetFontSize ==
  /\ fontSizeReady /= "loading"
  /\ Return(resetFontSize(State), "resetFontSize", [from |-> currentFontSize])

ApplyExternalFontSize ==
  /\ fontSizeReady /= "loading"
  /\ \E sizeKey \in SizeKeyInputs \cup {NULL} :
       Return(applyExternalFontSize(State, sizeKey), "applyExternalFontSize",
              [key |-> sizeKey])

UpdateServerFontSettings ==
  /\ fontSizeReady /= "loading"
  /\ \E base \in BaseSizeInputs, heading \in HeadingScaleInputs,
        small \in SmallScaleInputs :
       Return(updateServerFontSettings(State, base, heading, small),
              "updateServerFontSettings",
              [baseSize |-> base, headingScale |-> heading, smallScale |-> small])

RequestFontSizeChange ==
  /\ fontSizeReady /= "loading"
  /\ \E sizeKey \in SizeKeyInputs \cup {NULL} :
       Return(onRequestFontSizeChange(State, [fontSize |-> sizeKey]),
              "requestFontSizeChange", [key |-> sizeKey])

MainInit ==
  /\ "main.js" \in scripts
  /\ mainReady = "loading"
  /\ \E found \in FoundElements :
       \E accept \in CookieButtons(found), decline \in CookieButtons(found) :
         LET buttons == [accept |-> accept, decline |-> decline]
         IN Return(mainInit(State, found, buttons), "Portfolio.init",
                   [found |-> found, buttons |-> buttons])

SearchInput ==
  /\ mainReady = "ready"
  /\ elements.searchInput
  /\ Cardinality(timers) < MaxTimers
  /\ \E value \in SearchInputValues :
       Return(onSearchInput(State, value), "searchInput", [value |-> value])

\* 100 ms pass
Tick ==
  /\ mainReady = "ready"
  /\ \/ idle < DebounceDelay
     \/ \E tm \in timers : tm.remaining > 0
     \/ cookieBanner.timer \notin {<<>>, <<0>>}
  /\ Return(elapse(State), "tick", <<>>)

SearchTimeout ==
  /\ Len(fetches) < MaxInFlight
  /\ \E tm \in timers :
       /\ tm.remaining = 0
       /\ Return(onSearchTimeout(State, tm), "searchTimeout", [query |-> tm.query])

SuggestionClick ==
  /\ mainReady = "ready"
  /\ elements.searchInput
  /\ Len(fetches) < MaxInFlight
  /\ \E text \in Suggestions :
       Return(onSuggestionClick(State, text), "suggestionClick", [text |-> text])

SearchResponse ==
  \E i \in 1..Len(fetches) :
    \E outcome \in Outcomes(fetches[i]) :
      Return(onSearchResponse(State, i, outcome), "searchResponse",
             [url |-> fetches[i], outcome |-> outcome])

CookieTimeout ==
  /\ cookieBanner.timer = <<0>>
  /\ Return(onCookieTimeout(State), "cookieTimeout", <<>>)

CookieAccept ==
  /\ cookieBanner.accept
  /\ Return(onCookieAccept(State), "cookieAccept", <<>>)

CookieDecline ==
  /\ cookieBanner.decline
  /\ Return(onCookieDecline(State), "cookieDecline", <<>>)

ImagePickerInit ==
  /\ "image-picker.js" \in scripts
  /\ pickerReady = "loading"
  /\ Return(setupImagePicker(State), "setupImagePicker",
            [value |-> textareaValue])

FileChange ==
  /\ pickerReady = "ready"
  /\ Len(reads) < MaxReads
  /\ \E file \in Files :
       Return(onFileChange(State, file), "fileChange",
              [file |-> file, value |-> textareaValue])

ReaderLoad ==
  \E i \in 1..Len(reads) :
    Return(onReaderLoad(State, i), "readerLoad", [file |-> reads[i]])

ReaderError ==
  \E i \in 1..Len(reads) :
    Return(onReaderError(State, i), "readerError", [file |-> reads[i]])

RemoveClick ==
  /\ pickerReady = "ready"
  /\ Return(clearImage(State), "clearImage", <<>>)

TextareaInput ==
  /\ pickerReady = "ready"
  /\ previewTimers < MaxPreviewTimers
  /\ \E value \in TextareaInputs :
       Return(updatePreviewFromBase64(State, value), "textareaInput",
              [value |-> value])

PreviewTimeout ==
  /\ previewTimers > 0
  /\ Return(onPreviewTimeout(State), "previewTimeout", <<>>)

Next ==
  \/ ThemeInit
  \/ ChangeTheme
  \/ SetMode
  \/ ToggleMode
  \/ ApplyExternalTheme
  \/ RequestThemeChange
  \/ SystemThemeChange
  \/ FontsInit
  \/ ChangeFontPalette
  \/ ApplyExternalFont
  \/ RequestFontChange
  \/ FontAltDigit
  \/ FontSizeInit
  \/ ChangeFontSize
  \/ IncreaseFontSize
  \/ DecreaseFontSize
  \/ ResetFontSize
  \/ ApplyExternalFontSize
  \/ UpdateServerFontSettings
  \/ RequestFontSizeChange
  \/ MainInit
  \/ SearchInput
  \/ Tick
  \/ SearchTimeout
  \/ SuggestionClick
  \/ SearchResponse
  \/ CookieTimeout
  \/ CookieAccept
  \/ CookieDecline
  \/ ImagePickerInit
  \/ FileChange
  \/ ReaderLoad
  \/ ReaderError
  \/ RemoveClick
  \/ TextareaInput
  \/ PreviewTimeout
  \/ Reload

Spec == Init /\ [][Next]_vars

\* a page that loads one of the managers, from its load on
InitManagers == Init /\ scripts \in {{"theme.js"}, {"fonts.js"}, {"font-size.js"}}

NextManagers ==
  \/ ThemeInit
  \/ ChangeTheme
  \/ SetMode
  \/ ToggleMode
  \/ ApplyExternalTheme
  \/ RequestThemeChange
  \/ SystemThemeChange
  \/ FontsInit
  \/ ChangeFontPalette
  \/ ApplyExternalFont
  \/ RequestFontChange
  \/ FontAltDigit
  \/ FontSizeInit
  \/ ChangeFontSize
  \/ IncreaseFontSize
  \/ DecreaseFontSize
  \/ ResetFontSize
  \/ ApplyExternalFontSize
  \/ UpdateServerFontSettings
  \/ RequestFontSizeChange

SpecManagers == InitManagers /\ [][NextManagers]_vars

\* the page that loads the three managers
InitSite == Init /\ scripts = Site

SpecSite == InitSite /\ [][NextManagers]_vars

\* a manager page loaded again and again, the user doing nothing in between
NextLoads ==
  \/ ThemeInit
  \/ FontsInit
  \/ FontSizeInit
  \/ Reload

SpecLoads == InitManagers /\ [][NextLoads]_vars

\* a page with the quick search
InitSearch == Init /\ scripts = {"main.js"}

NextSearch ==
  \/ MainInit
  \/ SearchInput
  \/ Tick
  \/ SearchTimeout
  \/ SuggestionClick
  \/ SearchResponse

SpecSearch == InitSearch /\ [][NextSearch]_vars

\* a page with the cookie banner, loaded again and again
NextBanner ==
  \/ MainInit
  \/ Tick
  \/ CookieTimeout
  \/ CookieAccept
  \/ CookieDecline
  \/ Reload

SpecBanner == InitSearch /\ [][NextBanner]_vars

\* time passes, and a timer that is due runs its callback
SpecBannerFair == SpecBanner /\ WF_vars(Tick) /\ WF_vars(CookieTimeout)

\* an admin form with an image picker
InitPicker == Init /\ scripts = {"image-picker.js"}

NextPicker ==
  \/ ImagePickerInit
  \/ FileChange
  \/ ReaderLoad
  \/ ReaderError
  \/ RemoveClick
  \/ TextareaInput
  \/ PreviewTimeout

SpecPicker == InitPicker /\ [][NextPicker]_vars

(***************************************************************************)
(* Claims                                                                  *)
(***************************************************************************)
\* the sheet the theme manager's style element holds for a table key and a
\* mode selector under the platform preference dark
ExpectedThemeCss(key, mode, dark) ==
  LET resolved == IF mode = "dark" \/ (mode = "auto" /\ dark) THEN "dark" ELSE "light"
  IN <<ThemeSheet(THEMES[key][resolved], resolved)>>

ExpectedFontCss(key) ==
  <<[fontHeading |-> FONT_PALETTES[key].heading,
     fontBody |-> FONT_PALETTES[key].body,
     fontAccent |-> FONT_PALETTES[key].accent]>>

ExpectedFontSizeCss(key, baseSize, headingScale, smallScale) ==
  <<FontSizeSheet(Mul(parseFloat(baseSize), FONT_SIZE_SETTINGS[key].scale),
                  headingScale, smallScale)>>

\* C1: once a manager has initialised, its selected key is a key of its table
\* (THEMES, FONT_PALETTES, FONT_SIZE_SETTINGS), whatever was stored or
\* configured and whatever operations ran.
C1_SelectedKeyInTable ==
  /\ themeReady /= "loading" => currentTheme \in DOMAIN THEMES
  /\ fontReady /= "loading" => currentFontPalette \in DOMAIN FONT_PALETTES
  /\ fontSizeReady /= "loading" => currentFontSize \in DOMAIN FONT_SIZE_SETTINGS

\* the stored value if it names an entry, else the configured value, else
\* the default
Precedence(stored, configured, default, entries) ==
  IF stored \in entries THEN stored
  ELSE IF configured /= NULL THEN configured
  ELSE default

\* C2: init resolves the colour key, the mode and the font palette key each
\* by the precedence stored (if it names an entry) > configured > default.
C2_InitPrecedence ==
  /\ lastCall.fn = "ThemeManager.init" =>
       /\ currentTheme = Precedence(lastCall.args.stored.theme,
                                    lastCall.args.config.ACTIVE_PALETTE,
                                    "electric-neon", DOMAIN THEMES)
       /\ currentMode = Precedence(lastCall.args.stored.mode,
                                   lastCall.args.config.DEFAULT_THEME,
                                   "auto", ModeSet)
  /\ lastCall.fn = "FontManager.init" =>
       currentFontPalette = Precedence(lastCall.args.stored.font,
                                       lastCall.args.config.ACTIVE_FONT_PALETTE,
                                       "modern-professional", DOMAIN FONT_PALETTES)

\* C3: with nothing valid stored and a configured palette key, font key or
\* mode that names no entry, init ends in the default, with the default's
\* sheet in the style element and without an exception.
C3_InvalidConfigDegradesToDefault ==
  /\ ( /\ lastCall.fn = "ThemeManager.init"
       /\ lastCall.args.stored.theme \notin DOMAIN THEMES
       /\ lastCall.args.config.ACTIVE_PALETTE \notin DOMAIN THEMES \cup {NULL} )
     => /\ ~threw
        /\ currentTheme = "electric-neon"
        /\ themeVariablesStyle =>
             themeCss = ExpectedThemeCss("electric-neon", currentMode, prefersDark)
  /\ ( /\ lastCall.fn = "ThemeManager.init"
       /\ lastCall.args.stored.mode \notin ModeSet
       /\ lastCall.args.config.DEFAULT_THEME \notin ModeSet \cup {NULL} )
     => /\ ~threw
        /\ currentMode = "auto"
  /\ ( /\ lastCall.fn = "FontManager.init"
       /\ lastCall.args.stored.font \notin DOMAIN FONT_PALETTES
       /\ lastCall.args.config.ACTIVE_FONT_PALETTE \notin DOMAIN FONT_PALETTES \cup {NULL} )
     => /\ ~threw
        /\ currentFontPalette = "modern-professional"
        /\ fontCss = ExpectedFontCss("modern-professional")

\* C4: change(key) with a key that is not in the manager's table changes
\* neither the in-memory state, nor the stored items, nor the style element,
\* emits no event and throws nothing.
C4_ChangeInvalidKeyIsNoOp ==
  [][ /\ ( lastCall'.fn = "changeTheme" /\ lastCall'.args.key \notin DOMAIN THEMES )
         => /\ UNCHANGED <<currentTheme, currentMode, localStorage, themeCss>>
            /\ emitted' = <<>> /\ ~threw'
      /\ ( lastCall'.fn = "changeFontPalette"
           /\ lastCall'.args.key \notin DOMAIN FONT_PALETTES )
         => /\ UNCHANGED <<currentFontPalette, localStorage, fontCss>>
            /\ emitted' = <<>> /\ ~threw'
      /\ ( lastCall'.fn = "changeFontSize"
           /\ lastCall'.args.key \notin DOMAIN FONT_SIZE_SETTINGS )
         => /\ UNCHANGED <<currentFontSize, currentBaseSize, currentHeadingScale,
                           currentSmallScale, localStorage, fontSizeCss>>
            /\ emitted' = <<>> /\ ~threw'
    ]_vars

\* C5: change(key) with a key of the manager's table sets the in-memory key,
\* rewrites the style element from the new state, stores the key, and emits
\* exactly one event of the manager's type that names the key and carries
\* the key's table entry.
C5_ChangeValidKey ==
  /\ ( lastCall.fn = "changeTheme" /\ lastCall.args.key \in DOMAIN THEMES )
     => /\ currentTheme = lastCall.args.key
        /\ Len(emitted) = 1
        /\ emitted[1].type = "themechange"
        /\ emitted[1].detail.theme = lastCall.args.key
        /\ emitted[1].detail.colors = THEMES[lastCall.args.key]
        /\ localStorage["portfolio-theme"] = lastCall.args.key
        /\ themeVariablesStyle =>
             themeCss = ExpectedThemeCss(lastCall.args.key, currentMode, prefersDark)
  /\ ( lastCall.fn = "changeFontPalette" /\ lastCall.args.key \in DOMAIN FONT_PALETTES )
     => /\ currentFontPalette = lastCall.args.key
        /\ Len(emitted) = 1
        /\ emitted[1].type = "fontchange"
        /\ emitted[1].detail.fontPalette = lastCall.args.key
        /\ emitted[1].detail.palette = FONT_PALETTES[lastCall.args.key]
        /\ localStorage["portfolio-font-palette"] = lastCall.args.key
        /\ fontCss = ExpectedFontCss(lastCall.args.key)
  /\ ( lastCall.fn = "changeFontSize" /\ lastCall.args.key \in DOMAIN FONT_SIZE_SETTINGS )
     => /\ currentFontSize = lastCall.args.key
        /\ Len(emitted) = 1
        /\ emitted[1].type = "fontsizechange"
        /\ emitted[1].detail.fontSize = lastCall.args.key
        /\ emitted[1].detail.setting = FONT_SIZE_SETTINGS[lastCall.args.key]
        /\ localStorage["portfolio-font-size"] = lastCall.args.key
        /\ fontSizeCss = ExpectedFontSizeCss(lastCall.args.key, currentBaseSize,
                                             currentHeadingScale, currentSmallScale)

\* the handler whose events are ev ran the manager's apply() to its end (the
\* event is the last thing apply does)
ApplyRan(ev, type) == ev /= <<>> /\ ev[Len(ev)].type = type

\* C6: apply() run again, with the selections and the platform preference as
\* the previous run left them, leaves the style element content as the
\* previous run wrote it.
C6_ApplyIdempotent ==
  [][ /\ ( /\ ApplyRan(emitted, "themechange") /\ ApplyRan(emitted', "themechange")
           /\ UNCHANGED <<currentTheme, currentMode, prefersDark>> )
         => themeCss' = themeCss
      /\ ( /\ ApplyRan(emitted, "fontchange") /\ ApplyRan(emitted', "fontchange")
           /\ UNCHANGED currentFontPalette )
         => fontCss' = fontCss
      /\ ( /\ ApplyRan(emitted, "fontsizechange") /\ ApplyRan(emitted', "fontsizechange")
           /\ UNCHANGED <<currentFontSize, currentBaseSize, currentHeadingScale,
                          currentSmallScale>> )
         => fontSizeCss' = fontSizeCss
    ]_vars

\* applyExternalTheme() without arguments, applyExternalFont and
\* updateServerFontSettings with nothing new: apply() alone, run on a page
\* whose style element already holds a sheet
C6_Witness ==
  \/ /\ lastCall = [fn |-> "applyExternalTheme", args |-> [key |-> NULL, mode |-> NULL]]
     /\ themeReady = "ready" /\ currentTheme = "electric-neon"
     /\ ApplyRan(emitted, "themechange") /\ Len(themeCss) = 1
  \/ /\ lastCall = [fn |-> "updateServerFontSettings",
                    args |-> [baseSize |-> NULL, headingScale |-> 0, smallScale |-> 0]]
     /\ currentFontSize = "normal"
     /\ ApplyRan(emitted, "fontsizechange") /\ Len(fontSizeCss) = 1

\* the cycle light -> dark -> auto -> light
CycleSuccessor == [light |-> "dark", dark |-> "auto", auto |-> "light"]

\* C7: toggleMode takes each of light, dark, auto to its successor in the
\* cycle light -> dark -> auto -> light, and three toggles lead back to the
\* starting mode, whatever the palette and the platform preference.
C7_ToggleCycle ==
  [][ ( lastCall'.fn = "toggleMode" /\ currentMode \in ModeSet )
      => /\ currentMode' = CycleSuccessor[currentMode]
         /\ NextMode(NextMode(currentMode')) = currentMode
    ]_vars

\* a toggle from auto wrapped around to light
C7_Witness ==
  /\ lastCall = [fn |-> "toggleMode", args |-> [from |-> "auto"]]
  /\ currentMode = "light"
  /\ currentTheme \in DOMAIN THEMES

\* C8: while the mode selector is auto the rendered output (data-bs-theme
\* and the style sheet) is that of the palette's dark sub-table when the
\* platform prefers dark and of its light sub-table otherwise, in every
\* state, so also after each flip of the platform preference.
C8_AutoFollowsPlatform ==
  ( themeReady /= "loading" /\ currentMode = "auto" /\ currentTheme \in DOMAIN THEMES )
  => /\ dataBsTheme = (IF prefersDark THEN "dark" ELSE "light")
     /\ themeVariablesStyle =>
          themeCss = ExpectedThemeCss(currentTheme, "auto", prefersDark)

\* what a theme, font or font-size listener saw is not torn
NotTorn(seen, table, expected) ==
  /\ seen.stored = seen.current
  /\ seen.current[1] \in DOMAIN table => seen.css = expected

\* C9: whenever outside code can run (in a listener of the manager's event,
\* or after init or an operation has returned) the stored key(s) equal the
\* in-memory key(s) and the style element holds the sheet derived from them.
C9_NoTornState ==
  /\ themeReady /= "loading" =>
       NotTorn([stored |-> <<localStorage["portfolio-theme"],
                             localStorage["portfolio-mode"]>>,
                current |-> <<currentTheme, currentMode>>, css |-> themeCss],
               THEMES,
               IF themeVariablesStyle /\ currentTheme \in DOMAIN THEMES
               THEN ExpectedThemeCss(currentTheme, currentMode, prefersDark)
               ELSE themeCss)
  /\ fontReady /= "loading" =>
       NotTorn([stored |-> <<localStorage["portfolio-font-palette"]>>,
                current |-> <<currentFontPalette>>, css |-> fontCss],
               FONT_PALETTES,
               IF currentFontPalette \in DOMAIN FONT_PALETTES
               THEN ExpectedFontCss(currentFontPalette) ELSE fontCss)
  /\ fontSizeReady /= "loading" =>
       NotTorn([stored |-> <<localStorage["portfolio-font-size"]>>,
                current |-> <<currentFontSize>>, css |-> fontSizeCss],
               FONT_SIZE_SETTINGS,
               IF currentFontSize \in DOMAIN FONT_SIZE_SETTINGS
               THEN ExpectedFontSizeCss(currentFontSize, currentBaseSize,
                                        currentHeadingScale, currentSmallScale)
               ELSE fontSizeCss)
  /\ \A i \in 1..Len(emitted) :
       /\ emitted[i].seen.stored = emitted[i].seen.current
       /\ ( emitted[i].type = "themechange" /\ themeVariablesStyle
            /\ emitted[i].seen.current[1] \in DOMAIN THEMES )
          => emitted[i].seen.css =
               ExpectedThemeCss(emitted[i].seen.current[1],
                                emitted[i].seen.current[2], prefersDark)

\* C10: after init and after every operation the style element holds the
\* sheet computed in full from the current key, resolved mode, base size,
\* heading scale and small scale, and nothing else.
C10_OutputNeverDrifts ==
  /\ ( themeReady /= "loading" /\ themeVariablesStyle )
     => /\ currentTheme \in DOMAIN THEMES
        /\ themeCss = ExpectedThemeCss(currentTheme, currentMode, prefersDark)
  /\ fontReady /= "loading"
     => /\ currentFontPalette \in DOMAIN FONT_PALETTES
        /\ fontCss = ExpectedFontCss(currentFontPalette)
  /\ fontSizeReady /= "loading"
     => /\ currentFontSize \in DOMAIN FONT_SIZE_SETTINGS
        /\ fontSizeCss = ExpectedFontSizeCss(currentFontSize, currentBaseSize,
                                             currentHeadingScale, currentSmallScale)

\* what the equivalence claims compare of a manager: the in-memory
\* selection, the style element content and the stored values
ThemeOutcome(s) == <<s.currentTheme, s.currentMode, s.themeCss, s.localStorage>>

FontOutcome(s) == <<s.currentFontPalette, s.fontCss, s.localStorage>>

FontSizeOutcome(s) ==
  <<s.currentFontSize, s.currentBaseSize, s.currentHeadingScale,
    s.currentSmallScale, s.fontSizeCss, s.localStorage>>

\* the user-driven change of palette and mode: changeTheme(key), then
\* setMode(mode) when the first call returned
UserDrivenThemeChange(s, key, mode) ==
  LET s1 == changeTheme(s, key)
  IN IF s1.threw THEN s1 ELSE setMode(s1, mode)

\* C11: an external override leaves the in-memory state, the style content
\* and the stored values that changeTheme(key) followed by setMode(mode)
\* (changeFontPalette(key), changeFontSize(key)) leave from the same state,
\* for every key and mode, and it returns normally on a page without the
\* picker element.
C11_ExternalEqualsUserDriven ==
  [][ /\ lastCall'.fn = "applyExternalTheme"
         => /\ <<currentTheme', currentMode', themeCss', localStorage'>>
                 = ThemeOutcome(UserDrivenThemeChange(State, lastCall'.args.key,
                                                      lastCall'.args.mode))
            /\ ~themePicker.exists => ~threw'
      /\ lastCall'.fn = "applyExternalFont"
         => /\ <<currentFontPalette', fontCss', localStorage'>>
                 = FontOutcome(changeFontPalette(State, lastCall'.args.key))
            /\ ~threw'
      /\ lastCall'.fn = "applyExternalFontSize"
         => /\ <<currentFontSize', currentBaseSize', currentHeadingScale',
                 currentSmallScale', fontSizeCss', localStorage'>>
                 = FontSizeOutcome(changeFontSize(State, lastCall'.args.key))
            /\ ~threw'
    ]_vars

\* C12: a request event drives the manager to the state, style content and
\* stored values of the direct calls (changeTheme(X) and setMode for the
\* colour manager), and a request whose key is not in the table and whose
\* mode is not one of the three leaves the manager as it was.
C12_RequestEqualsDirectCall ==
  [][ /\ lastCall'.fn = "requestThemeChange"
         => /\ <<currentTheme', currentMode', themeCss', localStorage'>>
                 = ThemeOutcome(UserDrivenThemeChange(State, lastCall'.args.key,
                                                      lastCall'.args.mode))
            /\ ( lastCall'.args.key \notin DOMAIN THEMES
                 /\ lastCall'.args.mode \notin ModeSet )
               => UNCHANGED <<currentTheme, currentMode, themeCss, localStorage>>
      /\ lastCall'.fn = "requestFontChange"
         => /\ <<currentFontPalette', fontCss', localStorage'>>
                 = FontOutcome(changeFontPalette(State, lastCall'.args.key))
            /\ lastCall'.args.key \notin DOMAIN FONT_PALETTES
               => UNCHANGED <<currentFontPalette, fontCss, localStorage>>
      /\ lastCall'.fn = "requestFontSizeChange"
         => /\ <<currentFontSize', currentBaseSize', currentHeadingScale',
                 currentSmallScale', fontSizeCss', localStorage'>>
                 = FontSizeOutcome(changeFontSize(State, lastCall'.args.key))
            /\ lastCall'.args.key \notin DOMAIN FONT_SIZE_SETTINGS
               => UNCHANGED <<currentFontSize, fontSizeCss, localStorage>>
    ]_vars

\* C13: an input event whose trimmed value has fewer than 2 characters
\* leaves no timer pending, hides the results, and issues no request; and no
\* pending timer ever holds a query that short, so none is sent later.
C13_ShortQueryNeverSearches ==
  [][ /\ ( lastCall'.fn = "searchInput"
           /\ Len(Trim(lastCall'.args.value)) < MinQueryLength )
         => /\ timers' = {}
            /\ fetches' = fetches
            /\ lastIssued' = lastIssued
            /\ elements.searchResults => searchResultsDisplay' = "none"
      /\ \A tm \in timers' : Len(tm.query) >= MinQueryLength
    ]_vars

\* a short value typed after an earlier input had set a timer: the handle of
\* that timer is still kept, no timer is pending, the results are hidden
C13_Witness ==
  /\ lastCall = [fn |-> "searchInput", args |-> [value |-> <<" ", "a", " ">>]]
  /\ searchTimeout /= 0
  /\ timers = {}
  /\ searchResultsDisplay = "none"

\* decodeURIComponent on what encodeURIComponent writes for letters, spaces
\* and '#'
RECURSIVE decodeURIComponent(_)
decodeURIComponent(str) ==
  IF str = <<>> THEN <<>>
  ELSE IF Len(str) >= 3 /\ SubSeq(str, 1, 3) = <<"%", "2", "0">>
       THEN <<" ">> \o decodeURIComponent(SubSeq(str, 4, Len(str)))
       ELSE IF Len(str) >= 3 /\ SubSeq(str, 1, 3) = <<"%", "2", "3">>
       THEN <<"#">> \o decodeURIComponent(SubSeq(str, 4, Len(str)))
       ELSE <<Head(str)>> \o decodeURIComponent(Tail(str))

C15_LoadingWhileInFlight ==
  elements.loadingSpinner
  => /\ fetches /= <<>> => ( loadingDisplay = "flex" /\ isLoading )
     /\ ( fetches = <<>> /\ lastCall.fn = "searchResponse" )
        => ( loadingDisplay = "none" /\ ~isLoading )

\* C16: when fetch() or response.json() rejects, the results are hidden, the
\* container keeps the children it had (nothing is rendered into it), and
\* the loading indicator is hidden.
C16_FailureHidesResults ==
  [][ ( lastCall'.fn = "searchResponse" /\ ~lastCall'.args.outcome.ok )
      => /\ searchResultsDisplay' = "none"
         /\ searchContainer' = searchContainer
         /\ elements.loadingSpinner => ( loadingDisplay' = "none" /\ ~isLoading' )
    ]_vars

\* a request failed on a page that was showing results of an earlier one
C16_Witness ==
  /\ lastCall.fn = "searchResponse"
  /\ ~lastCall.args.outcome.ok
  /\ searchContainer /= <<>>
  /\ searchResultsDisplay = "none"
  /\ loadingDisplay = "none"

\* the three kinds in the order displayed: property, section title, path prefix
ResultKinds ==
  << [title |-> "Projects", path |-> <<"/projects/">>, end |-> <<"/">>],
     [title |-> "Articles", path |-> <<"/blog/">>, end |-> <<"/">>],
     [title |-> "Services", path |-> <<"/services/#">>, end |-> <<>>] >>

KindOf(data, n) ==
  CASE n = 1 -> data.projects [] n = 2 -> data.blog_posts [] n = 3 -> data.services

\* the section of the n-th kind
ExpectedSection(data, n) ==
  [title |-> ResultKinds[n].title,
   links |-> [i \in 1..Len(KindOf(data, n).array) |->
                [href |-> ResultKinds[n].path \o <<KindOf(data, n).array[i].slug>>
                            \o ResultKinds[n].end,
                 text |-> KindOf(data, n).array[i].title]]]

IsPresent(data, n) == KindOf(data, n).defined /\ KindOf(data, n).array /= <<>>

\* C17: after a response is displayed the container holds, and holds only,
\* one section for each kind whose array is present and not empty, in the
\* order projects, blog_posts, services; it holds the single 'No results
\* found' placeholder exactly when there is no such kind; nothing of its
\* earlier content is left.
C17_OneSectionPerKind ==
  [][ ( lastCall'.fn = "searchResponse" /\ lastCall'.args.outcome.ok )
      => LET data == lastCall'.args.outcome.data
             present == {n \in 1..3 : IsPresent(data, n)}
         IN IF present = {}
            THEN searchContainer' = <<[placeholder |-> "No results found."]>>
            ELSE /\ Len(searchContainer') = Cardinality(present)
                 /\ \A k \in 1..Len(searchContainer') :
                      \E n \in present :
                        /\ searchContainer'[k] = ExpectedSection(data, n)
                        /\ Cardinality({m \in present : m < n}) = k - 1
    ]_vars

\* a payload with projects and services but an empty blog_posts array was
\* displayed: two sections, no placeholder
C17_Witness ==
  /\ lastCall.fn = "searchResponse"
  /\ lastCall.args.outcome.ok
  /\ lastCall.args.outcome.data.blog_posts = Array(<<>>)
  /\ Len(searchContainer) = 2
  /\ searchContainer[1].title = "Projects"
  /\ searchContainer[2].title = "Services"
  /\ searchResultsDisplay = "block"

\* C18: a response is displayed when it arrives, also when it answers a
\* request issued before the one issued last.
C18_LateResponseOverwrites ==
  [][ ( /\ lastCall'.fn = "searchResponse"
        /\ lastCall'.args.outcome.ok
        /\ lastCall'.args.url /= lastIssued
        /\ IsPresent(lastCall'.args.outcome.data, 1) )
      => /\ searchResultsDisplay' = "block"
         /\ searchContainer'[1].links[1].text = lastCall'.args.url.q
    ]_vars

\* no request is in flight and the visible results are those of a query
\* other than the one requested last
C18_Witness ==
  /\ fetches = <<>>
  /\ lastCall.fn = "searchResponse"
  /\ searchResultsDisplay = "block"
  /\ searchContainer /= <<>>
  /\ searchContainer[1] /= NoResults
  /\ searchContainer[1].links[1].text /= lastIssued.q

\* the declared type is an image type
IsImageType(type) == Len(type) >= 2 /\ type[1] = "image" /\ type[2] = "/"

\* the handler showed exactly this message
Alerted(ev, message) == ev = <<[type |-> "alert", message |-> message]>>

\* C19: a selected file whose type does not start with 'image/' or whose
\* size is above 2097152 bytes gets a message, no read, and leaves the field
\* and the preview as they were; a file of an image type and of at most
\* 2097152 bytes gets no message and a read.
C19_RejectsNonImageAndOversize ==
  [][ lastCall'.fn = "fileChange"
      => LET file == lastCall'.args.file
         IN IF ~IsImageType(file.type) \/ file.size > 2097152
            THEN /\ Len(emitted') = 1
                 /\ emitted'[1].type = "alert"
                 /\ reads' = reads
                 /\ UNCHANGED <<textareaValue, previewSrc, previewDisplay>>
            ELSE /\ emitted' = <<>>
                 /\ reads' = Append(reads, file)
    ]_vars

\* a 3 MB JPEG was selected on a form that shows a stored image: a message,
\* no read, the field and the preview still those of the stored image
C19_Witness ==
  /\ lastCall.fn = "fileChange"
  /\ lastCall.args.file.name = "big.jpg"
  /\ Alerted(emitted,
             "Image file is too large. Please select an image smaller than 2MB.")
  /\ reads = <<>>
  /\ textareaValue = <<"data:", "image", "/", "gif", ";base64,", "logo.gif">>
  /\ previewSrc = textareaValue
  /\ previewDisplay = "block"

\* C20: selecting an accepted file changes neither the field nor the
\* preview; when its read completes the field becomes the file's data URL
\* and the preview shows it; when its read fails a message is shown and the
\* field and the preview are left as they were.
C20_FieldSetWhenReadCompletes ==
  [][ /\ ( /\ lastCall'.fn = "fileChange"
           /\ IsImageType(lastCall'.args.file.type)
           /\ lastCall'.args.file.size <= 2097152 )
         => UNCHANGED <<textareaValue, previewSrc, previewDisplay>>
      /\ lastCall'.fn = "readerLoad"
         => /\ textareaValue' = <<"data:">> \o lastCall'.args.file.type
                                  \o <<";base64,", lastCall'.args.file.name>>
            /\ previewSrc' = textareaValue'
            /\ previewDisplay' = "block"
            /\ Len(reads') = Len(reads) - 1
      /\ lastCall'.fn = "readerError"
         => /\ Alerted(emitted', "Error reading file. Please try again.")
            /\ UNCHANGED <<textareaValue, previewSrc, previewDisplay>>
            /\ Len(reads') = Len(reads) - 1
    ]_vars

\* the read of a 1 MB JPEG selected on an empty field has completed
C20_Witness ==
  /\ lastCall.fn = "readerLoad"
  /\ lastCall.args.file.name = "photo.jpg"
  /\ reads = <<>>
  /\ textareaValue = <<"data:", "image", "/", "jpeg", ";base64,", "photo.jpg">>
  /\ previewSrc = textareaValue
  /\ previewDisplay = "block"

\* the one-token strings that are well-formed base64
WellFormedBase64 == {<<"aGVsbG8=">>}

\* the validity rule: a data URL of an image, or well-formed base64
PassesRule(str) ==
  \/ ( Len(str) >= 3 /\ str[1] = "data:" /\ str[2] = "image" /\ str[3] = "/" )
  \/ str \in WellFormedBase64

\* C21: when no re-evaluation of the preview is pending, the preview is
\* shown exactly when the trimmed field value passes the validity rule, and
\* it then shows that value; so a field that is empty or fails the rule
\* leaves no image shown.
C21_PreviewFollowsField ==
  ( pickerReady = "ready" /\ previewTimers = 0 )
  => /\ previewDisplay = "block" <=> PassesRule(Trim(textareaValue))
     /\ previewDisplay = "block" => previewSrc = Trim(textareaValue)

\* an image had been shown, then the field was edited to a string that is
\* not well-formed base64 and the re-evaluation ran: no image is shown
C21_Witness ==
  /\ lastCall.fn = "previewTimeout"
  /\ previewTimers = 0
  /\ textareaValue = <<"aGVsbG8">>
  /\ previewSrc /= <<>>
  /\ previewDisplay = "none"

\* the scale of each entry, in hundredths
LadderScale ==
  [k \in {"extra-small", "small", "normal", "large", "extra-large"} |->
     CASE k = "extra-small" -> 80 [] k = "small" -> 90 [] k = "normal" -> 100
       [] k = "large" -> 110 [] k = "extra-large" -> 125]

\* the pixel number a base size starts with
LadderPixels == [b \in {"16px", "18px"} |-> IF b = "16px" THEN 16 ELSE 18]

\* C22: when the size manager has applied an entry of its table to a base
\* size that starts with a number, the sheet it wrote has
\* base = pixels x scale of the entry, sm = base x smallScale,
\* h6 = base x headingScale and h1 = base x headingScale x 2.5 (fixed point:
\* scales in hundredths, smallScale in thousandths); for 'large' and 16px the
\* base is 17.60 px and h1 is 1.1 x headingScale x 2.5 x 16.
C22_FontSizeLadder ==
  [][ ( /\ ApplyRan(emitted', "fontsizechange")
        /\ currentFontSize' \in DOMAIN LadderScale
        /\ currentBaseSize' \in DOMAIN LadderPixels )
      => LET sheet == fontSizeCss'[1]
             scaledBase == LadderPixels[currentBaseSize'] * LadderScale[currentFontSize']
         IN /\ Len(fontSizeCss') = 1
            /\ sheet.base = scaledBase
            /\ sheet.sm = scaledBase * currentSmallScale'
            /\ sheet.h6 = scaledBase * currentHeadingScale'
            /\ sheet.h1 = scaledBase * currentHeadingScale' * 250
            /\ ( currentFontSize' = "large" /\ currentBaseSize' = "16px" )
               => /\ sheet.base = 1760
                  /\ sheet.h1 = 110 * currentHeadingScale' * 250 * 16
    ]_vars

\* 'large' applied with base size 16px and heading scale 1.5
C22_Witness ==
  /\ lastCall = [fn |-> "changeFontSize", args |-> [key |-> "large"]]
  /\ currentFontSize = "large"
  /\ currentBaseSize = "16px"
  /\ currentHeadingScale = 150
  /\ fontSizeCss[1].base = 1760
  /\ fontSizeCss[1].h1 = 110 * 150 * 250 * 16

\* the handlers of each manager
ThemeHandlers == {"ThemeManager.init", "changeTheme", "setMode", "toggleMode",
                  "applyExternalTheme", "requestThemeChange", "systemThemeChange"}

FontHandlers == {"FontManager.init", "changeFontPalette", "applyExternalFont",
                 "requestFontChange", "fontAltDigit"}

FontSizeHandlers == {"FontSizeManager.init", "changeFontSize", "increaseFontSize",
                     "decreaseFontSize", "resetFontSize", "applyExternalFontSize",
                     "updateServerFontSettings", "requestFontSizeChange"}

\* the class names of the root that begin with the lexeme first
ClassNamesOf(cls, first) == SelectSeq(classList(cls), LAMBDA token : token[1] = first)

\* the theme manager's class names, and the font manager's (undefined is what
\* classList.add makes of a palette without className)
ThemeClassNames(cls) == ClassNamesOf(cls, "theme")

FontClassNames(cls) == ClassNamesOf(cls, "font") \o ClassNamesOf(cls, "undefined")

ThemeItems == {"portfolio-theme", "portfolio-mode"}

\* the stored items outside those named
OtherItems(storage, items) == [i \in StorageItems \ items |-> storage[i]]

\* C23: on the page that loads the three managers, a handler of one manager
\* leaves the other two managers' variables and style elements, their stored
\* items and their class names on the root as they were; only the manager's
\* own stored items change.
C23_ManagersIndependent ==
  [][ /\ lastCall'.fn \in ThemeHandlers
         => /\ UNCHANGED <<fontVars, fontSizeVars>>
            /\ OtherItems(localStorage', ThemeItems) = OtherItems(localStorage, ThemeItems)
            /\ FontClassNames(rootClass') = FontClassNames(rootClass)
      /\ lastCall'.fn \in FontHandlers
         => /\ UNCHANGED <<themeVars, fontSizeVars>>
            /\ OtherItems(localStorage', {"portfolio-font-palette"})
                 = OtherItems(localStorage, {"portfolio-font-palette"})
            /\ ThemeClassNames(rootClass') = ThemeClassNames(rootClass)
      /\ lastCall'.fn \in FontSizeHandlers
         => /\ UNCHANGED <<themeVars, fontVars, rootClass>>
            /\ OtherItems(localStorage', {"portfolio-font-size"})
                 = OtherItems(localStorage, {"portfolio-font-size"})
    ]_vars

\* the font palette changed by Alt+3 on a page where the theme and the font
\* size were changed before: all three class names and stored items are there
C23_Witness ==
  /\ scripts = Site
  /\ lastCall = [fn |-> "fontAltDigit", args |-> [digit |-> 3]]
  /\ currentFontPalette = "tech-minimalist"
  /\ localStorage = [i \in StorageItems |->
                       CASE i = "portfolio-theme" -> "ocean-deep"
                         [] i = "portfolio-mode" -> "dark"
                         [] i = "portfolio-font-palette" -> "tech-minimalist"
                         [] i = "portfolio-font-size" -> "large"
                         [] OTHER -> NULL]
  /\ ThemeClassNames(rootClass) = <<Lexemes("theme") \o <<"-">> \o Lexemes("ocean-deep")>>
  /\ FontClassNames(rootClass) = <<Lexemes("font-palette-tech-minimalist")>>
  /\ dataBsTheme = "dark" /\ Len(themeCss) = 1 /\ Len(fontSizeCss) = 1
\* C24: when a picker exists, after a handler that applied the state its
\* active options are the current selections: palette and mode button after
\* changeTheme, setMode, toggleMode, applyExternalTheme and a platform flip;
\* the font option and the font-size option after a change, increase,
\* decrease, reset or external apply.
C24_PickerMatchesState ==
  [][ /\ ( /\ lastCall'.fn \in {"changeTheme", "setMode", "toggleMode",
                                "applyExternalTheme", "systemThemeChange"}
           /\ ApplyRan(emitted', "themechange") /\ ~threw'
           /\ themePicker'.exists )
         => /\ themePicker'.theme = currentTheme'
            /\ themePicker'.mode = currentMode'
      /\ ( /\ lastCall'.fn \in {"changeFontPalette", "applyExternalFont"}
           /\ ApplyRan(emitted', "fontchange") /\ ~threw'
           /\ fontPicker'.exists )
         => fontPicker'.font = currentFontPalette'
      /\ ( /\ lastCall'.fn \in {"changeFontSize", "increaseFontSize",
                                "decreaseFontSize", "resetFontSize",
                                "applyExternalFontSize"}
           /\ ApplyRan(emitted', "fontsizechange") /\ ~threw'
           /\ fontSizePicker'.exists )
         => fontSizePicker'.size = currentFontSize'
    ]_vars
\* the handlers in which the user does not choose a mode
KeepsMode(call) ==
  \/ call.fn \in {"changeTheme", "systemThemeChange"}
  \/ call.fn \in {"applyExternalTheme", "requestThemeChange"} /\ call.args.mode = NULL

\* C25: auto is never rendered: once an apply has set it, the data-bs-theme
\* attribute of the root is light or dark, and so is the sub-table every
\* sheet in the style element was made from; and resolving auto leaves the
\* selector alone: across a platform flip or an apply in which the user
\* chooses no mode, a mode selector that is auto stays auto, and so does
\* the stored portfolio-mode, which every completed apply writes as auto.
C25_AutoNeverRendered ==
  [][ /\ dataBsTheme' /= NULL => dataBsTheme' \in {"light", "dark"}
      /\ \A n \in 1..Len(themeCss') : themeCss'[n].dataBsTheme \in {"light", "dark"}
      /\ ( currentMode = "auto" /\ KeepsMode(lastCall') )
         => /\ currentMode' = "auto"
            /\ localStorage["portfolio-mode"] = "auto"
                 => localStorage'["portfolio-mode"] = "auto"
            /\ ApplyRan(emitted', "themechange")
                 => localStorage'["portfolio-mode"] = "auto"
    ]_vars
\* C26: a change of the platform colour scheme while the mode selector is
\* light or dark changes nothing of the theme manager: its variables, the
\* style element, data-bs-theme, the root's class and the stored items stay,
\* and no event is dispatched.
C26_PlatformFlipIgnoredOutsideAuto ==
  [][ ( lastCall'.fn = "systemThemeChange" /\ currentMode \in {"light", "dark"} )
      => /\ UNCHANGED <<themeVars, localStorage, rootClass>>
         /\ emitted' = <<>>
         /\ ~threw'
    ]_vars

\* the platform turned dark on a watching page whose selector is light
C26_Witness ==
  /\ lastCall = [fn |-> "systemThemeChange", args |-> [dark |-> TRUE]]
  /\ themeWatching /\ themeReady = "ready"
  /\ currentMode = "light" /\ prefersDark
  /\ dataBsTheme = "light" /\ Len(themeCss) = 1
\* C27: the mode selector is always light, dark or auto: init leaves one of
\* the three whatever is stored or configured, setMode and
\* applyExternalTheme with another value leave the selector as it was, and
\* what a handler writes under portfolio-mode is one of the three.
C27_ModeSelectorValid ==
  [][ /\ currentMode' \in ModeSet
      /\ localStorage'["portfolio-mode"] /= localStorage["portfolio-mode"]
           => localStorage'["portfolio-mode"] \in ModeSet
      /\ ( /\ lastCall'.fn \in {"setMode", "applyExternalTheme"}
           /\ lastCall'.args.mode \notin ModeSet )
         => currentMode' = currentMode
    ]_vars

\* the class name applyTheme adds for a palette key
ThemeClassName(key) == <<"theme", "-">> \o Lexemes(key)

\* C28: once applyTheme has written the root's class attribute, the
\* attribute holds one class name, theme-<current palette key>, and nothing
\* left of an earlier one; an apply of the palette already applied leaves
\* the attribute as it was.
C28_OneThemeClass ==
  [][ ( scripts = {"theme.js"} /\ rootClass' /= <<>> )
      => /\ SplitOnSpaces(rootClass') = <<ThemeClassName(currentTheme')>>
         /\ ( rootClass /= <<>> /\ currentTheme' = currentTheme )
            => rootClass' = rootClass
    ]_vars
C30_ShortQueryDoesNotCancel ==
  [][ /\ ( /\ lastCall'.fn = "searchInput"
           /\ Len(Trim(lastCall'.args.value)) < MinQueryLength )
         => /\ fetches' = fetches
            /\ elements.searchResults => searchResultsDisplay' = "none"
      /\ ( /\ lastCall'.fn = "searchResponse"
           /\ lastCall'.args.outcome.ok
           /\ Len(Trim(searchInputValue)) < MinQueryLength )
         => /\ searchResultsDisplay' = "block"
            /\ searchContainer' /= <<>>
            /\ searchInputValue' = searchInputValue
    ]_vars

\* results of the query ab are visible while the field holds ' a '
C30_Witness ==
  /\ lastCall.fn = "searchResponse"
  /\ lastCall.args.url.q = <<"c", "%", "2", "3">>
  /\ searchInputValue = <<" ", "a", " ">>
  /\ searchResultsDisplay = "block"
  /\ searchContainer /= <<>>
  /\ searchContainer[1] /= NoResults
  /\ searchContainer[1].links[1].text = <<"c", "%", "2", "3">>
\* the URL performSearch requests for a query
SearchUrl(query) == [path |-> "/api/search/", q |-> encodeURIComponent(query)]

\* C31: a click on a suggestion issues the request for its text in the same
\* step, whatever the length of the text and however recent the last input
\* event, and leaves the pending timers and the kept handle as they are; a
\* timer that is due issues the request for its query.
C31_SuggestionClickSearchesAtOnce ==
  [][ /\ ( lastCall'.fn = "suggestionClick" /\ elements.searchResults )
         => /\ fetches' = Append(fetches, SearchUrl(lastCall'.args.text))
            /\ timers' = timers
            /\ searchTimeout' = searchTimeout
      /\ ( lastCall'.fn = "searchTimeout" /\ elements.searchResults )
         => fetches' = Append(fetches, SearchUrl(lastCall'.args.query))
    ]_vars

\* typed ' c#', clicked the one-letter suggestion within the window: the
\* request of the click and the request of the timer are both in flight
C31_Witness ==
  /\ lastCall = [fn |-> "searchTimeout", args |-> [query |-> <<"c", "#">>]]
  /\ fetches = <<SearchUrl(<<"a">>), SearchUrl(<<"c", "#">>)>>
  /\ searchInputValue = <<"a">>
  /\ timers = {}
\* C32: a read that is pending stays pending when another file is accepted
\* and when the image is removed, and whichever read completes writes its
\* result into the field and shows it in the preview, whatever the file
\* input holds by then.
C32_ReadsNeitherCancelledNorSequenced ==
  [][ /\ lastCall'.fn = "fileChange"
         => \/ reads' = reads
            \/ reads' = Append(reads, lastCall'.args.file)
      /\ lastCall'.fn = "clearImage"
         => reads' = reads /\ textareaValue' = <<>> /\ previewDisplay' = "none"
      /\ lastCall'.fn = "readerLoad"
         => /\ textareaValue' = readAsDataURL(lastCall'.args.file)
            /\ previewSrc' = textareaValue'
            /\ previewDisplay' = "block"
            /\ Len(reads') = Len(reads) - 1
    ]_vars

\* photo.jpg then exact.png were selected, the image was removed, and the read
\* of photo.jpg completed after that of exact.png: the field and the preview
\* hold photo.jpg although the file input is empty
C32_Witness ==
  /\ lastCall.fn = "readerLoad"
  /\ lastCall.args.file.name = "photo.jpg"
  /\ reads = <<>>
  /\ fileInputValue = NULL
  /\ textareaValue = <<"data:", "image", "/", "jpeg", ";base64,", "photo.jpg">>
  /\ previewDisplay = "block"

\* the read of the file selected first completed last: the input holds
\* exact.png, the field photo.jpg
C32_FirstSelectedCompletesLast ==
  /\ lastCall.fn = "readerLoad"
  /\ lastCall.args.file.name = "photo.jpg"
  /\ reads = <<>>
  /\ fileInputValue = "exact.png"
  /\ textareaValue = <<"data:", "image", "/", "jpeg", ";base64,", "photo.jpg">>
  /\ previewDisplay = "block"
\* the position of a size of the table in the order of SizeKeys, from 1
SizePosition(key) == IndexOf(SizeKeys, key) + 1

IsSize(key) == \E n \in 1..Len(SizeKeys) : SizeKeys[n] = key

\* the step changes nothing of the manager or the store, emits nothing and
\* throws nothing
FontSizeUntouched ==
  /\ fontSizeVars' = fontSizeVars
  /\ localStorage' = localStorage
  /\ emitted' = <<>>
  /\ ~threw'

\* C33: from a size of the table increaseFontSize selects the next size of the
\* order extra-small, small, normal, large, extra-large and decreaseFontSize
\* the previous one; increase at extra-large and decrease at extra-small
\* change nothing, neither state nor storage nor events; from every size but
\* extra-large an increase followed by a decrease selects the starting size
\* again; resetFontSize ends at normal; and after none of the three, nor after
\* updateServerFontSettings, is the selected size one the step did not find
\* selected or in the table.
C33_StepsAlongTheOrder ==
  [][ /\ ( lastCall'.fn = "increaseFontSize" /\ IsSize(currentFontSize) )
         => IF currentFontSize = "extra-large" THEN FontSizeUntouched
            ELSE /\ currentFontSize' = SizeKeys[SizePosition(currentFontSize) + 1]
                 /\ localStorage'["portfolio-font-size"] = currentFontSize'
                 /\ Len(emitted') = 1 /\ emitted'[1].type = "fontsizechange"
                 /\ decreaseFontSize(State').currentFontSize = currentFontSize
      /\ ( lastCall'.fn = "decreaseFontSize" /\ IsSize(currentFontSize) )
         => IF currentFontSize = "extra-small" THEN FontSizeUntouched
            ELSE /\ currentFontSize' = SizeKeys[SizePosition(currentFontSize) - 1]
                 /\ localStorage'["portfolio-font-size"] = currentFontSize'
                 /\ Len(emitted') = 1 /\ emitted'[1].type = "fontsizechange"
      /\ lastCall'.fn = "resetFontSize" => currentFontSize' = "normal"
      /\ lastCall'.fn = "updateServerFontSettings"
         => currentFontSize' = currentFontSize
      /\ lastCall'.fn \in {"increaseFontSize", "decreaseFontSize", "resetFontSize",
                           "updateServerFontSettings"}
         => IsSize(currentFontSize') \/ currentFontSize' = currentFontSize
    ]_vars

\* increaseFontSize was called with extra-large selected, reached by two
\* increases from normal: the size, the stored size and the picker are as
\* they were
C33_Witness ==
  /\ lastCall = [fn |-> "increaseFontSize", args |-> [from |-> "extra-large"]]
  /\ currentFontSize = "extra-large"
  /\ localStorage["portfolio-font-size"] = "extra-large"
CookiesAccepted(storage) == storage["cookiesAccepted"] /= NULL

BannerShown(banner) == banner.display = "block"

\* C34: on a page with the banner, init leaves the banner as the document has
\* it, without timer or listeners, when cookiesAccepted is stored, and then
\* nothing changes it until the page is loaded again; otherwise init starts
\* the timer with the full delay and the banner is not shown before that
\* timer's callback runs, which it does unless the page is loaded again
\* first.  Accepting stores cookiesAccepted and hides the banner, declining
\* hides it and stores nothing; a stored cookiesAccepted stays stored, over
\* loads too, and a load leaves the stored items alone.
C34_CookieConsent ==
  /\ [][ /\ ( lastCall'.fn = "Portfolio.init" /\ lastCall'.args.found.cookieBanner )
            => IF CookiesAccepted(localStorage)
               THEN cookieBanner' = NoCookieBanner
               ELSE /\ cookieBanner'.timer = <<CookieBannerDelay>>
                    /\ ~BannerShown(cookieBanner')
         /\ ( mainReady = "ready" /\ cookieBanner = NoCookieBanner )
            => cookieBanner' = NoCookieBanner
         /\ ( BannerShown(cookieBanner') /\ ~BannerShown(cookieBanner) )
            => lastCall'.fn = "cookieTimeout" /\ cookieBanner.timer = <<0>>
         /\ ( cookieBanner'.timer /= <<>> /\ cookieBanner.timer = <<>> )
            => lastCall'.fn = "Portfolio.init" /\ ~CookiesAccepted(localStorage)
         /\ lastCall'.fn = "cookieAccept"
            => /\ localStorage' = [localStorage EXCEPT !["cookiesAccepted"] = "true"]
               /\ cookieBanner'.display = "none"
         /\ lastCall'.fn = "cookieDecline"
            => localStorage' = localStorage /\ cookieBanner'.display = "none"
         /\ CookiesAccepted(localStorage)
            => localStorage'["cookiesAccepted"] = localStorage["cookiesAccepted"]
         /\ lastCall'.fn = "load"
            => localStorage' = localStorage /\ cookieBanner' = NoCookieBanner
       ]_vars
  /\ ( cookieBanner.timer /= <<>> )
       ~> ( BannerShown(cookieBanner) \/ lastCall.fn = "load" )

\* the banner was accepted on an earlier load: on this load init found
\* cookiesAccepted stored and left the banner without timer and listeners
C34_Witness ==
  /\ lastCall.fn = "Portfolio.init"
  /\ lastCall.args.found.cookieBanner
  /\ lastCall.args.buttons = [accept |-> TRUE, decline |-> TRUE]
  /\ localStorage["cookiesAccepted"] = "true"
  /\ cookieBanner = NoCookieBanner

\* the banner was declined on an earlier load and nothing was stored: on this
\* load the timer ran out and the banner is shown again
C34_ShownAgainAfterDecline ==
  /\ lastCall.fn = "cookieTimeout"
  /\ BannerShown(cookieBanner)
  /\ cookieBanner.decline /\ ~cookieBanner.accept
  /\ ~CookiesAccepted(localStorage)
====
